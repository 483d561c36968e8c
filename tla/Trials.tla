------------------------------- MODULE Trials -------------------------------
(***************************************************************************)
(* The life of trials and of the polls attached to them                    *)
(* (src/src/trials/trials.service.ts, trialQueue/trialQueue.ts and the     *)
(* guard isActive.guard.ts): created with a delayed Bull job that closes   *)
(* them, edited, deleted, their polls reworded, dropped and made again.    *)
(*                                                                         *)
(* A handler is one request in flight and every action ends at an await.   *)
(* Transactions are shown by their effects: what they have written stays   *)
(* with the handler until COMMIT, and the row of trial id is locked while  *)
(* a handler, or a transaction nobody ends, has written it.  The ids of    *)
(* both tables come from sequences, which a ROLLBACK does not turn back.   *)
(* Who is signed in does not matter here: updateTrials looks at the owner, *)
(* the other routes do not.                                                *)
(***************************************************************************)
EXTENDS Naturals, Sequences, FiniteSets

CONSTANTS
  Handlers,     \* requests in flight
  Ops,          \* kinds of requests made in an instance
  PoolSize,     \* connections to the master
  MaxRequests,  \* bound: requests made in a behaviour
  MaxCrashes,   \* bound: restarts of the process
  Rejections,   \* whether statements may be rejected
  ShortDelays   \* whether trialTime may pass before createTrial ends

AllOps == {"create", "edit", "delete", "subject", "reword", "drop"}

ASSUME BoundAssumption ==
  /\ {PoolSize, MaxRequests, MaxCrashes} \subseteq Nat /\ MaxRequests # 0
  /\ IsFiniteSet(Handlers)
  /\ Ops \subseteq AllOps
  /\ Rejections \in BOOLEAN /\ ShortDelays \in BOOLEAN

VARIABLES
  made, over, deleted,  \* master trials: ids inserted, is_time_over, deletedAt
  poll,      \* master Votes: the trial of each poll id, 0 where there is no row
  wording,   \* titles of each poll, one of two
  voted,     \* polls with ballots, which their foreign key protects
  drifted,   \* history: a trial and its poll may have drawn different numbers
  replica,   \* the slave's copy of made, over and deleted
  wal,       \* versions of it the slave has not applied yet
  serials,   \* last ids of the two sequences
  pc,        \* where each handler stands
  arg,       \* the trial (or poll) of its request, new ids in "create"
  leaks,     \* connections held by transactions nobody ends
  stuck,     \* trials whose row such a transaction has written
  queued,    \* trials with a job in the queue
  running,   \* trial of the active job, 0 for none (one job at a time)
  stalled,   \* jobs Bull has put back once after a crash
  missed,    \* history: trials whose job ended without closing a trial
  requests,  \* requests made so far (bounded by MaxRequests)
  crashes    \* restarts so far (bounded by MaxCrashes)

trials == <<made, over, deleted, replica, wal>>
polls  == <<poll, wording, voted, drifted>>
queue  == <<queued, running, stalled, missed>>
leaked == <<leaks, stuck>>
vars   == <<made, over, deleted, poll, wording, voted, drifted, replica, wal,
            serials, pc, arg, leaks, stuck, queued, running, stalled, missed, requests,
            crashes>>

\* A request takes at most one id of each sequence.
TrialIds == 1..MaxRequests
PollIds  == 1..MaxRequests
Texts    == {"one", "other"}
Version  == [made : SUBSET TrialIds, over : SUBSET TrialIds, deleted : SUBSET TrialIds]
Creating == {"insertTrial", "insertPoll", "addJob", "commitTrial"}
Guarded  == {"insertSubject", "reword", "dropPoll"}
Labels   == {"idle", "connect", "find", "save", "softDelete", "deletePoll",
             "deletePollOnly", "commitDelete", "guard"} \cup Creating \cup Guarded

\* A transaction is open from connect() to release().
InTxn == Creating \cup {"find", "save", "softDelete", "deletePoll",
                        "deletePollOnly", "commitDelete"}
Open  == {h \in Handlers : pc[h] \in InTxn}
Spare == PoolSize > leaks + Cardinality(Open)

\* The row of trial t can be written.
Unlocked(t) ==
  /\ t \notin stuck
  /\ \A h \in Handlers : pc[h] \in {"deletePoll", "commitDelete"} => arg[h].id # t

-----------------------------------------------------------------------------
Init ==
  /\ made = {} /\ over = {} /\ deleted = {}
  /\ replica = [made |-> {}, over |-> {}, deleted |-> {}] /\ wal = <<>>
  /\ poll = [p \in PollIds |-> 0]
  /\ wording = [p \in PollIds |-> "one"]
  /\ voted = {} /\ drifted = FALSE
  /\ serials = [trial |-> 0, poll |-> 0]
  /\ pc = [h \in Handlers |-> "idle"]
  /\ arg = [h \in Handlers |-> [op |-> "create", id |-> 1, poll |-> 1]]
  /\ leaks = 0 /\ stuck = {}
  /\ queued = {} /\ running = 0 /\ stalled = {} /\ missed = {}
  /\ requests = 0 /\ crashes = 0

Goto(h, label) == pc' = [pc EXCEPT ![h] = label]

\* A commit reaches the slave later.
Ship == /\ wal' = Append(wal, [made |-> made', over |-> over', deleted |-> deleted'])
        /\ UNCHANGED replica

\* The id in the route; createTrial has none.
Ids(op) == IF op = "create" THEN {1} ELSE TrialIds

\* Routes that change a poll pass IsActiveGuard first.
Request(h, op, id) ==
  /\ pc[h] = "idle" /\ requests < MaxRequests
  /\ requests' = requests + 1
  /\ arg' = [arg EXCEPT ![h] = [op |-> op, id |-> id, poll |-> 1]]
  /\ Goto(h, IF op \in {"subject", "reword", "drop"} THEN "guard" ELSE "connect")
  /\ UNCHANGED <<trials, polls, serials, leaked, queue, crashes>>

\* createQueryRunner, connect, startTransaction.
Connect(h) ==
  /\ pc[h] = "connect" /\ Spare
  /\ Goto(h, CASE arg[h].op = "create" -> "insertTrial"
               [] arg[h].op = "edit"   -> "find"
               [] OTHER                -> "softDelete")
  /\ UNCHANGED <<trials, polls, serials, arg, leaked, queue, requests, crashes>>

-----------------------------------------------------------------------------
(* createTrial: the job is in the queue before the trial is committed.     *)

InsertTrial(h) ==
  /\ pc[h] = "insertTrial"
  /\ serials' = [serials EXCEPT !.trial = @ + 1]
  /\ arg' = [arg EXCEPT ![h].id = serials.trial + 1]
  /\ Goto(h, "insertPoll")
  /\ UNCHANGED <<trials, polls, leaked, queue, requests, crashes>>

\* Mutation: the transaction ends before the job is added.
InsertPollCommits(h) ==
  /\ pc[h] = "insertPoll"
  /\ serials' = [serials EXCEPT !.poll = @ + 1]
  /\ arg' = [arg EXCEPT ![h].poll = serials.poll + 1]
  /\ made' = made \cup {arg[h].id} /\ UNCHANGED <<over, deleted>> /\ Ship
  /\ poll' = [poll EXCEPT ![serials.poll + 1] = arg[h].id]
  /\ Goto(h, "addJob")
  /\ UNCHANGED <<wording, voted, drifted, leaked, queue, requests, crashes>>

\* Mutation: the poll is saved twice.
InsertPollTwice(h) ==
  /\ pc[h] = "insertPoll"
  /\ serials' = [serials EXCEPT !.poll = @ + 2]
  /\ arg' = [arg EXCEPT ![h].poll = serials.poll + 2]
  /\ Goto(h, "addJob")
  /\ UNCHANGED <<trials, polls, leaked, queue, requests, crashes>>

\* Two creations cross when the later trial is the first to save its poll.
Crosses(h) == \E g \in Handlers : pc[g] = "insertPoll" /\ arg[g].id < arg[h].id

InsertPoll(h) ==
  /\ pc[h] = "insertPoll"
  /\ serials' = [serials EXCEPT !.poll = @ + 1]
  /\ arg' = [arg EXCEPT ![h].poll = serials.poll + 1]
  /\ drifted' = (drifted \/ Crosses(h))
  /\ Goto(h, "addJob")
  /\ UNCHANGED <<trials, poll, wording, voted, leaked, queue, requests, crashes>>

\* Mutation: the job carries the id of the poll.
AddJobForPoll(h) ==
  /\ pc[h] = "addJob"
  /\ queued' = queued \cup {arg[h].poll}
  /\ Goto(h, "commitTrial")
  /\ UNCHANGED <<trials, polls, serials, arg, leaked, running, stalled, missed,
                 requests, crashes>>

AddJob(h) ==
  /\ pc[h] = "addJob"
  /\ queued' = queued \cup {arg[h].id}
  /\ Goto(h, "commitTrial")
  /\ UNCHANGED <<trials, polls, serials, arg, leaked, running, stalled, missed,
                 requests, crashes>>

CommitTrial(h) ==
  /\ pc[h] = "commitTrial"
  /\ made' = made \cup {arg[h].id} /\ UNCHANGED <<over, deleted>> /\ Ship
  /\ poll' = [poll EXCEPT ![arg[h].poll] = arg[h].id]
  /\ Goto(h, "idle")
  /\ UNCHANGED <<wording, voted, drifted, serials, arg, leaked, queue, requests,
                 crashes>>

-----------------------------------------------------------------------------
(* updateTrials: neither way out gives the connection back, and the way    *)
(* without an error does not end the transaction.                          *)

\* No such trial, or somebody else's: rollback, no release.
FindFails(h) ==
  /\ pc[h] = "find"
  /\ leaks' = leaks + 1
  /\ Goto(h, "idle")
  /\ UNCHANGED <<trials, polls, serials, arg, stuck, queue, requests, crashes>>

Find(h) ==
  /\ pc[h] = "find"
  /\ arg[h].id \in replica.made \ replica.deleted
  /\ Goto(h, "save")
  /\ UNCHANGED <<trials, polls, serials, arg, leaked, queue, requests, crashes>>

\* Mutation: the commented-out commit and release are back.  save() writes
\* every column in which the entity the slave returned differs.
SaveCommits(h) ==
  /\ pc[h] = "save" /\ Unlocked(arg[h].id)
  /\ over' = IF arg[h].id \in replica.over THEN over \cup {arg[h].id}
                                           ELSE over \ {arg[h].id}
  /\ UNCHANGED <<made, deleted>> /\ Ship
  /\ Goto(h, "idle")
  /\ UNCHANGED <<polls, serials, arg, leaked, queue, requests, crashes>>

\* save() updates the row unless nothing in it changed.
Save(h) ==
  /\ pc[h] = "save"
  /\ \/ Unlocked(arg[h].id) /\ stuck' = stuck \cup {arg[h].id}
     \/ UNCHANGED stuck
  /\ leaks' = leaks + 1
  /\ Goto(h, "idle")
  /\ UNCHANGED <<trials, polls, serials, arg, queue, requests, crashes>>

-----------------------------------------------------------------------------
(* deleteTrials: a soft delete in its transaction, then deleteVote with    *)
(* the id of the trial, on a second connection and committed by itself.    *)

SoftDelete(h) ==
  /\ pc[h] = "softDelete"
  /\ \/ arg[h].id \in made /\ Unlocked(arg[h].id) /\ Goto(h, "deletePoll")
     \/ arg[h].id \notin made /\ Goto(h, "deletePollOnly")
  /\ UNCHANGED <<trials, polls, serials, arg, leaked, queue, requests, crashes>>

\* deleteVote: rejected when there is no such row, or ballots refer to it.
DropRow(p) == poll' = [poll EXCEPT ![p] = 0] /\ UNCHANGED <<wording, voted, drifted>>
Droppable(p) == p \in PollIds /\ poll[p] # 0 /\ p \notin voted

DeletePoll(h) ==
  /\ pc[h] \in {"deletePoll", "deletePollOnly"} /\ Spare
  /\ IF Droppable(arg[h].id)
     THEN /\ DropRow(arg[h].id)
          /\ Goto(h, IF pc[h] = "deletePoll" THEN "commitDelete" ELSE "idle")
     ELSE Goto(h, "idle") /\ UNCHANGED polls
  /\ UNCHANGED <<trials, serials, arg, leaked, queue, requests, crashes>>

CommitDelete(h) ==
  /\ pc[h] = "commitDelete"
  /\ deleted' = deleted \cup {arg[h].id} /\ UNCHANGED <<made, over>> /\ Ship
  /\ Goto(h, "idle")
  /\ UNCHANGED <<polls, serials, arg, leaked, queue, requests, crashes>>

-----------------------------------------------------------------------------
(* createSubject, updateSubject and deleteVote behind IsActiveGuard.  The  *)
(* guard reads params.trialsId, the routes call it trialId: findOne with   *)
(* an undefined id returns any trial of the slave.                         *)

AfterGuard(op) == CASE op = "subject" -> "insertSubject"
                    [] op = "reword"  -> "reword"
                    [] OTHER          -> "dropPoll"

Guard(h) ==
  /\ pc[h] = "guard"
  /\ \/ /\ \E t \in replica.made \ replica.deleted : t \notin replica.over
        /\ Goto(h, AfterGuard(arg[h].op))
     \/ /\ \/ replica.made \ replica.deleted = {}
           \/ \E t \in replica.made \ replica.deleted : t \in replica.over
        /\ Goto(h, "idle")
  /\ UNCHANGED <<trials, polls, serials, arg, leaked, queue, requests, crashes>>

\* Mutation: Votes.trialId is an ordinary column, not the join column of a
\* one-to-one relation.
InsertSubjectAgain(h) ==
  /\ pc[h] = "insertSubject" /\ Spare
  /\ serials' = [serials EXCEPT !.poll = @ + 1]
  /\ poll' = IF arg[h].id \in made
             THEN [poll EXCEPT ![serials.poll + 1] = arg[h].id] ELSE poll
  /\ drifted' = TRUE
  /\ Goto(h, "idle")
  /\ UNCHANGED <<trials, wording, voted, arg, leaked, queue, requests, crashes>>

\* trialId is a unique foreign key.
InsertSubject(h) ==
  /\ pc[h] = "insertSubject" /\ Spare
  /\ serials' = [serials EXCEPT !.poll = @ + 1]
  /\ poll' = IF arg[h].id \in made /\ \A p \in PollIds : poll[p] # arg[h].id
             THEN [poll EXCEPT ![serials.poll + 1] = arg[h].id] ELSE poll
  /\ drifted' = TRUE
  /\ Goto(h, "idle")
  /\ UNCHANGED <<trials, wording, voted, arg, leaked, queue, requests, crashes>>

Reword(h) ==
  /\ pc[h] = "reword" /\ Spare
  /\ \E text \in Texts :
       wording' = IF arg[h].id \in PollIds /\ poll[arg[h].id] # 0
                  THEN [wording EXCEPT ![arg[h].id] = text] ELSE wording
  /\ Goto(h, "idle")
  /\ UNCHANGED <<trials, poll, voted, drifted, serials, arg, leaked, queue, requests,
                 crashes>>

DropPoll(h) ==
  /\ pc[h] = "dropPoll" /\ Spare
  /\ IF Droppable(arg[h].id) THEN DropRow(arg[h].id) ELSE UNCHANGED polls
  /\ Goto(h, "idle")
  /\ UNCHANGED <<trials, serials, arg, leaked, queue, requests, crashes>>

-----------------------------------------------------------------------------
(* The queue.                                                              *)

\* The delay is over.  A trialTime that has passed already makes it zero.
StartJob ==
  /\ running = 0
  /\ \E t \in queued :
       /\ ShortDelays \/ \A h \in Handlers : pc[h] = "commitTrial" => arg[h].id # t
       /\ running' = t
       /\ queued' = queued \ {t}
  /\ UNCHANGED <<trials, polls, serials, pc, arg, leaked, stalled, missed,
                 requests, crashes>>

\* UPDATE trials SET is_time_over = true WHERE id: nobody looks at the number
\* of rows it changed.
UpdateTimeDone ==
  /\ running # 0 /\ Spare /\ Unlocked(running)
  /\ IF running \in made
     THEN /\ over' = over \cup {running} /\ UNCHANGED <<made, deleted, missed>> /\ Ship
     ELSE missed' = missed \cup {running} /\ UNCHANGED trials
  /\ running' = 0
  /\ UNCHANGED <<polls, serials, pc, arg, leaked, queued, stalled, requests, crashes>>

\* The job has one attempt.
FailJob ==
  /\ Rejections /\ running # 0
  /\ missed' = missed \cup {running}
  /\ running' = 0
  /\ UNCHANGED <<trials, polls, serials, pc, arg, leaked, queued, stalled,
                 requests, crashes>>

-----------------------------------------------------------------------------
\* An INSERT that is turned down may have drawn its number: a trial has used one
\* up without its poll, a subject without a trial, or both tables the same one.
DrawInVain(h) ==
  \/ UNCHANGED serials /\ drifted' = (drifted \/ pc[h] = "insertPoll")
  \/ /\ pc[h] = "insertTrial"
     /\ serials' = [serials EXCEPT !.trial = @ + 1]
     /\ drifted' = TRUE
  \/ /\ pc[h] \in {"insertPoll", "insertSubject"}
     /\ serials' = [serials EXCEPT !.poll = @ + 1]
     /\ drifted' = (drifted \/ pc[h] = "insertSubject" \/ Crosses(h))

\* A statement of a handler is rejected: rollback, and release except in
\* updateTrials.
Fault(h) ==
  /\ Rejections /\ pc[h] \notin {"idle", "connect", "guard"}
  /\ DrawInVain(h)
  /\ leaks' = IF pc[h] \in {"find", "save"} THEN leaks + 1 ELSE leaks
  /\ Goto(h, "idle")
  /\ UNCHANGED <<trials, poll, wording, voted, arg, stuck, queue, requests, crashes>>

\* The process stops: its connections close, their transactions roll back,
\* and Bull puts the active job back when it has not done so before.
Crash ==
  /\ crashes < MaxCrashes
  /\ crashes' = crashes + 1
  /\ pc' = [h \in Handlers |-> "idle"]
  /\ drifted' = (drifted \/ \E h \in Handlers : pc[h] = "insertPoll")
  /\ leaks' = 0 /\ stuck' = {}
  /\ running' = 0
  /\ IF running = 0 THEN UNCHANGED <<queued, stalled, missed>>
     ELSE IF running \in stalled
          THEN missed' = missed \cup {running} /\ UNCHANGED <<queued, stalled>>
          ELSE /\ queued' = queued \cup {running}
               /\ stalled' = stalled \cup {running}
               /\ UNCHANGED missed
  /\ UNCHANGED <<trials, poll, wording, voted, serials, arg, requests>>

\* A ballot is cast on a poll (module Voting).
CastBallot ==
  /\ \E p \in PollIds : poll[p] # 0 /\ voted' = voted \cup {p}
  /\ UNCHANGED <<trials, poll, wording, drifted, serials, pc, arg, leaked, queue,
                 requests, crashes>>

Replicate ==
  /\ wal # <<>>
  /\ replica' = Head(wal) /\ wal' = Tail(wal)
  /\ UNCHANGED <<made, over, deleted, polls, serials, pc, arg, leaked, queue,
                 requests, crashes>>

-----------------------------------------------------------------------------
Handle(h) ==
  \/ Connect(h) \/ InsertTrial(h) \/ InsertPoll(h) \/ AddJob(h)
  \/ CommitTrial(h) \/ FindFails(h) \/ Find(h) \/ Save(h) \/ SoftDelete(h)
  \/ DeletePoll(h) \/ CommitDelete(h) \/ Guard(h) \/ InsertSubject(h)
  \/ Reword(h) \/ DropPoll(h)

Next ==
  \/ \E h \in Handlers :
       \/ \E op \in Ops : \E id \in Ids(op) : Request(h, op, id)
       \/ Handle(h) \/ Fault(h)
  \/ StartJob \/ UpdateTimeDone \/ FailJob
  \/ Crash \/ CastBallot \/ Replicate

\* Promises settle, the delay of a job passes, and a statement that waits for
\* a row lock or a connection is served in its turn.
Fairness ==
  /\ \A h \in Handlers : SF_vars(Handle(h))
  /\ WF_vars(StartJob)
  /\ SF_vars(UpdateTimeDone)

Spec == Init /\ [][Next]_vars /\ Fairness

-----------------------------------------------------------------------------
\* Every variable has its type; the keys of the two tables hold: a poll belongs
\* to a trial that exists, and a trial has at most one poll.
TypeOK ==
  /\ made \subseteq TrialIds /\ over \subseteq made /\ deleted \subseteq made
  /\ replica \in Version /\ wal \in Seq(Version)
  /\ poll \in [PollIds -> {0} \cup made]
  /\ \A p, q \in PollIds : poll[p] = poll[q] /\ poll[p] # 0 => p = q
  /\ wording \in [PollIds -> Texts] /\ voted \subseteq PollIds /\ drifted \in BOOLEAN
  /\ serials \in [trial : 0..requests, poll : 0..requests]
  /\ pc \in [Handlers -> Labels]
  /\ arg \in [Handlers -> [op : AllOps, id : TrialIds \cup PollIds, poll : PollIds]]
  /\ leaks \in 0..PoolSize /\ stuck \subseteq TrialIds
  /\ queued \subseteq TrialIds /\ running \in {0} \cup TrialIds
  /\ stalled \subseteq TrialIds /\ missed \subseteq TrialIds
  /\ requests \in 0..MaxRequests /\ crashes \in 0..MaxCrashes

\* A trial that is not over has a job that will close it: in the queue, active,
\* or ended in vain (it ran before the COMMIT of createTrial, failed its one
\* attempt, or stalled twice).  createTrial adds the job before it commits, so
\* no crash between the two leaves a trial without one.
NoTrialForgotten == made \subseteq over \cup queued \cup {running} \cup missed

\* A trial that is over stays over, whatever else writes its row: the entity
\* updateTrials saves comes from the slave and may be open still.
OverIsForever == [][over \subseteq over']_over

\* A poll disappears when it is dropped by its own id or with its own trial.
\* deleteTrials hands the id of the trial to deleteVote as the id of a poll, so
\* it takes the poll of another trial, but not before the two sequences have
\* drifted apart: a creation failed once one of its INSERTs had drawn a number
\* and the other had not, two creations crossed, or a subject was added later.
PollLostOnlyIfDrifted ==
  [][\A p \in PollIds :
       poll[p] # 0 /\ poll'[p] = 0 /\ ~drifted =>
         \E h \in Handlers :
           /\ pc[h] \in {"dropPoll", "deletePoll", "deletePollOnly"} /\ pc'[h] # pc[h]
           /\ arg[h].id = IF pc[h] = "dropPoll" THEN p ELSE poll[p]]_vars

\* Once created, a trial is closed by its job, crashes and deletions
\* notwithstanding (createTrial, steps 5 and 6: after the delay the queue marks
\* it).
EveryTrialCloses == \A t \in TrialIds : t \in made ~> t \in over
=============================================================================
