# Formal models of Participatory Trial

Participatory Trial is a NestJS server for community trials: users open a trial (or a humor
post, or a political debate), others vote on its poll over a socket, chat, like and comment, and
a delayed job closes the trial. These modules describe the parts in which several requests,
processes and stores interact, TLC checks them on small instances, and TLAPS proves the most
important results for every value of the constants.

Paths below are relative to `src/` of the repository, so `src/trials/trials.service.ts` is listed
in `PROJECT.json` as `src/src/trials/trials.service.ts`.

* [1. The system](#1-the-system)
* [2. Plan](#2-plan)
* [3. Modules and code](#3-modules-and-code)
* [4. Runs, bounds and what they show](#4-runs-bounds-and-what-they-show)
* [5. Fairness](#5-fairness)
* [6. Proofs](#6-proofs)
* [7. Not modelled](#7-not-modelled)

## 1. The system

### Stores and processes

| Store | Holds | Consistency |
|---|---|---|
| PostgreSQL master | users, boards, trials, polls (`Votes`), ballots (`EachVote`), likes, clients | written by `save`, `update`, `delete`, `increment` and by every `createQueryRunner()` |
| PostgreSQL slave | a copy of it | read by the `find*` calls and query builders of repositories; replication is asynchronous (`src/app.module.ts:47-75`) |
| Redis, single client | chat lists `<channel>:chat:<room>`, nicknames | expire after two days |
| Redis cluster | verification codes, account cache, view counters, Bull queues | |
| MongoDB | archived chats | written by a sweep every minute |
| push service, mail | external | may fail, may answer 410 |

One Node process runs many handlers. Between two `await`s a handler is alone; at each `await` any
other handler may run. In the models a handler is a function value (`pc[h]`), an action is what
happens from one `await` to the next, and another handler's action may come in between.

### Components

| Component | State | Operations | Interacts with | What is hard | What makes it correct |
|---|---|---|---|---|---|
| Ballots of a poll (`vote.service.ts` and two copies for humors and debates) | rows of `EachVote` | vote, flip, withdraw, cancel over HTTP | gateway, pool | no unique key; lookup and write apart; a second connection inside a transaction; guests matched by address | one ballot per voter; a click toggles atomically; the pool does not jam; nobody touches a stranger's ballot |
| Vote room (`events.gateway.ts`) | sockets in a room, counts sent | createVote, join, requestChannel | ballots, push | counts from a lagging slave, out of order; `=== 100` | pages show the ballots; a hot poll is announced once |
| Trials (`trials.service.ts`) | trials, polls, `is_time_over` | create, edit, delete, subject routes | Bull queue, ballots | job before COMMIT; transactions left open; ids of two sequences | every trial is closed, none reopened |
| Closing queue (`trialQueue.ts`) | delayed jobs | one job at a time | trials | one attempt, stalls | no trial without a job |
| Likes (`like.service.ts`) | like rows, `board.like` | toggle | boards | two tables, no transaction | counter equals rows |
| Chats (`chats.service.ts`) | Redis list, Mongo archive | push, sweep, page | gateway | sweeps overlap, chats arrive during a flush, pages counted from a moving list | bounded loss; pages show everything |
| Sign-up (`auth.service.ts`) | account rows, code key | signUp, provider log-in, verify | mail, pool | transactions left open on pooled connections; stale lookups; one code key per address | a verified account stays; a code fits its account |
| Push subscriptions (`users.service.ts`, `alarm.service.ts`) | `clients` rows | register, announce, clean up | gateway | no unique key; lookup on the slave; 410 after a new registration | one row per browser; told once |
| Boards and comments (three services each) | a post, its poll, a comment | create, list, open, edit, delete; write, rewrite, erase | replica, pool, likes, view counter | `save` of a whole row looked up earlier; a post and its poll in one transaction, begun outside the `try` | post and poll together; nothing undone but by a stale edit |
| View counters (`updateViews.sceduler.ts`) | Redis counters, `board.view` | INCR, minute sweep | boards | two stores, a sweep that reads, adds and deletes | no visit is lost |
| Halls of fame (four services) | rankings, vote totals | recount and replace, every Monday on every server, by hand for trials | polls | aggregates not awaited, three transactions, empty polls, week arithmetic, servers at once | a poll counts in one week; rankings hold what was counted |
| List pages | none | the rows of a page, the bar of page numbers, the order of a hall | boards, halls | rounding, blocks of pages, numbers stored as text | every row on one page, the current page on the bar |
| Accounts and cache (`users.service.ts`) | `userInfos`, `id:<n>` | findById, rename, delete | log-in, every request with a token | cache of a day that nothing invalidates, filled from the slave | nobody is locked out; a new name shows in the end |
| Log-in, refresh tokens (`auth.service.ts`) | token keys, ids of tokens | login, social log-in, renew | accounts | three prefixes for one key | what a refresh token opens |
| Search, images, logging, mail transport | external | | | | |

`PROJECT.json` lists the same components with their sources and, under `hazards`, the lines at
which each hard behaviour bites and the properties that would catch it.

## 2. Plan

Done:

1. `Voting` (ballots, statement by statement), `BallotBox` (what a voter is promised) and the
   refinement between them, `VotingProofs`.
2. `Likes`, `LikesProofs`.
3. `Trials` (trials, polls, queue), `TrialsProofs`.
4. `ChatLog`.
5. `SignUp`.
6. `PushClients`.
7. `VoteRoom` (on top of `BallotBox`), `HotVote` (its composition with `PushClients`).
8. `Boards`: posts with their polls, comments and view counters.
9. `Accounts`: log-in, renewal, rename and the cache.
10. `HallOfFame`: the four rebuilds; `Pages`: what a list page shows. `Site` puts 8 to
    10 into one run; `SiteProofs` is about all of them.
11. `SignUpProofs` and `PushProofs`: the invariants of 5 and 6 for every value of the constants.
12. Which poll `deleteTrials` takes away (`PollLostOnlyIfDrifted`), and the types of `Trials`, proved.
13. `ChatProofs`: what is lost (`LossBounded`) and what a reader is shown (`PagesShowEverything`).
    `RoomProofs`: `ScreensRight` and `AnnouncedWhenHot`. `VotingProofs`: the steps of `Voting` map to
    steps of `BallotBox`.

Next: every safety property of the runs has its theorem, so what is left is to widen what they speak
about.

14. `PagesShowEverything` with overlapping sweeps: a chat can be missed that one sweep trims while only
    another holds it, read and not yet inserted; a history variable has to name these.
15. The order in which a hall shows its totals (`HallPage`), which needs a sort stated without
    `CHOOSE` over sequences to be reasoned about.

Runs are added for new questions only: three parts of the web site share the run `site`, in which
a behaviour is of one of them.

The abstract specification worth stating is `BallotBox`: three copies of the vote service
promise it and the vote room builds on it. For likes, chats and subscriptions the promise is a
relation between two stores, which an invariant says better than a second machine.

## 3. Modules and code

`PROJECT.json` maps each definition to the lines it stands for. What follows is the reading guide.

### Voting

`src/trials/vote/vote.service.ts`. A *session* is a tab or a socket; `UserOf` and `IpOf` say who it
votes as. `addVoteUserorNanUser` becomes `CreateVote`, `Connect`, `StartTransaction`, then the
lookup of `validationAndSaveVote` (`FindNothing`, `FindBallot`), then `Insert`, or
`Reload`/`Update`/`Reinsert` (TypeORM's `save` of a loaded entity selects it, and inserts it when it
is gone), or `AcquireSecond`/`Delete` (`canselEachVote` runs on a connection of its own), then
`Commit`/`Release` or `Rollback`. `Fault` rejects a statement; before the `try` block that leaks
the connection. The pool is `Conns`: a handler that needs a connection waits until one is free.

`CancelByHttp` is the DELETE route of the two copies (`humors_votes.controller.ts:43`,
`poltical_debates_vote.controller.ts:44`), which has no `IsVoteGuard`: anybody signed in cancels the
ballot whose id it names. The trial board has no such route: the method under its `@Post(':voteId')` is
commented out, so the decorator falls on `canselEachVotes` and replaces its DELETE; that route passes no id of a
ballot and changes nothing. The constant `HttpCancels` says whether the board has the route: FALSE is the trial
board.

A write and the COMMIT after it are one step: until COMMIT other transactions read the old row,
and a second writer of the row only waits for it.

### BallotBox

Per voter: a click on a side casts it, a click on the same side withdraws it, errors change
nothing more, every click is answered; and whoever is among `Cancellers` withdraws any ballot that stands
(`Withdraw`). `Voting` implements it for voters who share neither account nor address
(`ImplementsBallotBox`, by a refinement mapping from rows and labels).

### VoteRoom and HotVote

`events.gateway.ts`: `Cast` (the vote service has returned), `CountBallots` (on the slave), `Broadcast`,
`Tell` or `TellHot`; for a page `Open`, `CountForPage`, `Show`. The history variable `slips` notes what may
make a count wrong: the slave lagged (`lag`), a later count was delivered first (`overtaken`), another ballot
was cast before the count (`crowd`), a statement was rejected (`failure`), a ballot, the canceller's own or a
stranger's, was cancelled over HTTP (`silent`). `HotVote` joins the room with `PushClients`: the handler that
told the room of exactly `Hot` votes (100 in the code) awaits `sendAllNotifications`.

### PushClients

`updateClientsInfo` (`Register`, `FindClient` on the slave, `Purge`, and the `save` as
`InsertClient` or `ReloadClient`/`UpdateClient`/`ReinsertClient`) and `sendAllNotifications`
(`Announce`, `FindAll`, `Deliver`, `Cleanup`, `Finish`). `clashed` notes browsers and accounts whose
registrations overlapped or were misled by the slave.

### Trials

`trials.service.ts`, its queue and its guard. `InTxn` labels hold a pool connection. `FindFails`,
`Find` and `Save` leave `updateTrials` without release, so `leaks` and `stuck` grow.
`createTrial` adds the job (`AddJob`) before `CommitTrial`. `StartJob`, `UpdateTimeDone`, `FailJob`
are the worker; `Crash` rolls open transactions back and puts an active job back once. The ids of
trials and polls come from two sequences; the history variable `drifted` notes the steps after which
a trial may have another number than its poll: a creation failed with one of its two numbers drawn and
not the other, it was overtaken between its two INSERTs, or `createSubject` took a number. A rejected
INSERT may have drawn its number or not (`DrawInVain`): sequences do not roll back.

### Likes

`like.service.ts`: `CheckBoard`, `FindLike`/`FindNoLike` on the slave, `Save`/`Remove`,
`Increment`/`Decrement`, `Reply`. `excused` notes users whose lookup was stale or overlapped,
`failed` a rejection between row and counter.

### ChatLog

`chats.service.ts`: authors (`Say`, `Push`, `Tell`), sweeps (`Start`, `Read`, `Save`, `Trim` per
channel), readers (`Join`, `Count`, `Take`, `Query`, `More`). A chat is its number in the order of
the pushes. `debt` counts, per channel, the chats that arrived during a flush, were turned down by
`insertMany`, or expired.

### SignUp

`auth.service.ts` for one address: `row` is the account (id and verified), `code` the Redis key,
`unended` the pooled connections that were released inside a transaction (the refusals at the
head of `signUp`), `pend` what such a transaction has written. `Mark` is the UPDATE of
`verifiCationEmail` on any free connection. A rejected GET of the old code is caught and the new one set over
it (`GetRejects`); any other rejection leaves the account without a code (`CodeRejects`).

### Boards

The humor, political and free ("online") board are three copies of one service with differences
that matter; `kind` says which board a behaviour is of. A handler is the list of steps it still has to
make (`todo`): the gate of its route (`Gate`: a token, the owner guard, the pipe that looks the board
up) followed by the statements of its service (`Service`), both read off the controllers and services
(`HumorRoutes`, `HumorWriting`, ...). An action takes the first step: `Find` and `FindMine` on the
slave, `Visit` (INCR), `Begin`, `Quiet` and `Commit` of a creation (what a transaction writes shows at
its COMMIT), `SaveRow` (`save` of the entity that was looked up: every column that differs goes back)
against `SaveText` (`save` of `{id, title, content}`), `Hide`, and the same for the comment. `Sweep` is
the minute's flush of the view counters: it takes `Swept` views, which is zero for each board, because
the braces of the pattern `{humors}:*:view` are literal characters and the keys have none. The
political board has no sweep at all. The column `view` starts at its default (`FirstView`): 1 on the free board,
0 on the others.

### Accounts

`users.service.ts` and the log-in half of `auth.service.ts`, for one address. A job is a request:
addressed by e-mail (`signUp`, `verify`, `social`, `login`), by the id in its token (`rename`,
`delete`), a renewal, or a reader (`Read`: `findById`, on every authenticated request and for every name
on a list page). The reader goes through `get`, `load` and `set`: Redis, the slave, Redis again.
`delete` is always refused: `softDelete` needs a delete column and the entity has none. The statements
inside the transaction of `signUp` are those of `SignUp`.

### HallOfFame and Pages

Each rebuild is an entry of a table: which ballots it counts, whether it awaits the queries for the leaders,
which rankings it replaces. What the database answers is computed from the columns of the entities
(`HallOfFame` lists them): a query that names what no table has is rejected, and so is an INSERT without a NOT
NULL column. What a recount takes in is `Countable`: every ballot on the trial board, none on the humor board,
whose query asks for `ip IS NULL` while the gateway stores an address with each ballot
(`src/events/events.gateway.ts:144`), and on the political board the query names a column that no table has. A
sum over no ballot is NULL, and its total is rejected. `earlier` is the history of `ballots`: those cast
before today that still stand. `StartRebuild` (cron) or by hand, then per poll of last week the count and the
write of its total, then per ranking the query, DELETE and INSERT in a transaction of their own. Every server
runs the cron job. Days are numbered so that the arithmetic of `setDate` and of the Monday can be checked at
its boundaries.

`Pages` has no state: the rows of a page, the bars of page numbers of boards and of halls, and the
order of a hall, whose totals are `varchar` columns on two boards. `MCSite` checks them in assumptions
over all lists of up to 7 rows and all bars of up to 120 pages.

### Site

`Boards`, `Accounts` and `HallOfFame` share no state. A behaviour of `Site` is of one of them, chosen
at its start: the run explores the sum of the three state spaces and not their product.

## 4. Runs, bounds and what they show

| Run | Instance | Shows |
|---|---|---|
| `voting_race` | a user with two tabs and a guest behind the same address, every statement may fail, cancels over HTTP | ballots double or come back only for voters whose lookups overlapped, and are touched only by a request that reaches them or over the DELETE route; connections are owned once, and the pool jams only once leaks leave it no more connections than handlers |
| `voting_ballot_box` | two strangers, 3 requests, cancels over HTTP, failures inside the `try` block | the handlers implement `BallotBox`; every request is answered |
| `likes_counter` | two tabs of a user, another user, a visitor, 3 clicks | counter and rows agree unless excused; no stranger's like is touched |
| `trials_safety` | two handlers, every route, 3 requests, a crash, rejections, past dates | no committed trial without a job; none reopened; a poll is lost to the deletion of another trial only after drift |
| `trials_close` | creations and deletions, a crash, dates ahead | every trial is closed |
| `trials_edit` | creation and edit | **violated**: an edited trial is never closed |
| `chat_loss` | two sweeps, 4 chats, a failure, a crash, an expiry | loss bounded by `debt`; lists are cut back |
| `chat_pages` | a reader, a sweep, two channels with one room number, 5 chats | paging skips nothing the stores have |
| `signup_race` | two handlers, two connections, 5 requests, a fault, an expiry | what can lose, or wrongly verify, an account |
| `push_clients` | two registrations at once, two browsers, two accounts and visitors, 3 registrations | rows double or vanish only after a clash |
| `hot_vote` | two voters, a page, a browser, a poll hot at one ballot, 2 clicks | screens and the announcement, unless a named slip happened |
| `site` | per board: two tabs of one account and a visitor, one connection, 4 requests, a like; per account: two jobs, 3 calls, two names; per hall: two servers, two polls, two ballots, the days 6, 7, 8 and 14 | post and poll together, no visit lost, undone only by a stale edit; nobody locked out unless replaced, names catch up; totals complete before they are ranked, each poll in one week, no ranking ever changed |

The bounds are requests, faults, crashes and connections; data is abstract. They are enough for
the races in question: every race named above needs two handlers of one voter (account, browser)
and a third party, and every hazard of the list occurs within the bounds: for each property,
`PROJECT.json` names a plausible mistake in one definition (`mutants`) that makes TLC find a
violation under the same configuration. Where a property holds only "unless" something
happened, the exception is a history variable that the very step sets at which it happens.

Symmetry is over handlers, connections, accounts, browsers, tabs, servers or polls that `Init` and
`Next` treat alike. Runs with a liveness property have none, but for `site`: there it permutes tabs
of one account, servers and polls, and its liveness property and fairness speak of neither. Deadlock is
not checked: the bounds stop every model.

### What was learned

* **Double ballots.** A double click leaves two ballots of one voter: two handlers look up before
  either inserts. `README.md:87` has votes pass a Bull queue, first in, first out; none does.
* **The pool.** Withdrawing takes a second connection, so as many simultaneous withdrawals as
  connections wait for each other. One connection more than handlers is what prevents it.
* **An edited trial never closes** (finding): `updateTrials` keeps its row locked for ever.
* **The poll of another trial.** `deleteTrials` deletes the poll whose id is the id of the trial.
  The two agree until one creation fails with one number drawn and not the other (a rejected INSERT keeps the
  number it drew), is overtaken between its INSERTs, or one `createSubject` is called, rejected or not; from
  then on they need not.
* **Chats.** `PagesShowEverything` needs `Limit <= Retain` (both are 50) and sweeps that do not
  overlap. Page 0 of a short list repeats chats, later pages come oldest first. The newest 50
  chats are never archived and expire after two quiet days.
* **Announcement.** It is skipped when two ballots are counted together past 100, doubled when
  both count exactly 100, and repeated by every flip at 100.
* **Subscriptions.** The row of a signed-in user has no `clientId`, so the clean-up after a 410
  (`DELETE WHERE clientId`) never removes it.
* **Sign-up.** A refused sign-up returns its connection inside a transaction; a later verification
  on it is answered with success and not committed. A sign-up that replaces an unverified account
  shuts whoever holds its token out for a day: the old id is cached as missing.
* **Edits of whole rows.** On the humor and political board an edit writes back every column of the
  entity the slave returned: likes counted since are lost, and a post or comment deleted since comes
  back. The free board writes its text only and is free of this.
* **Pages that count.** Opening the edit page of a political post counts as a visit.
* **Strangers' ballots.** On the humor and political boards anybody signed in cancels any ballot by its id; the
  room is not told. The trial board has no route left that cancels one.
* **View counters.** They are never flushed: the column `view` stays at its default, the counters in Redis
  grow. The default of the free board is 1, so its pages show one view more than there were visits.
* **Halls.** No hall is ever rebuilt. The trial rebuild stops at a query that names an unknown column,
  although the route that starts it answers that it succeeded (`src/trials/trials.controller.ts:481`); the
  humor rebuild stops at its first poll, with a total of NaN, since it counts ballots without an address and
  there are none; the political one at its first poll, with an unknown column. Without a poll, and on the free
  board, promises are handed to `save`, and the DELETE is rolled back. Polls made after the last Monday of a
  month are never ranked, totals stored as text put 999 above 1000, and the entries of the humor halls link to
  the trial halls. The bar of a hall shows the current page for the first ten of every hundred pages.
* **Refresh tokens.** Log-in stores `refreshToken:<token>`, social log-in `loginId:<id>`, renewal asks for
  `refresh_token:<token>`: none is ever accepted.
* **Deleting an account** is always rejected.

## 5. Fairness

Fairness is assumed for liveness only, in four specifications.

* `Voting`: weak fairness of the steps of a handler, because a promise of a statement settles; strong
  fairness of taking a connection, because the pool serves its waiters first in, first out, so
  a waiter that finds a connection free again and again gets it. Faults and replication have none.
* `Trials`: strong fairness of the handlers and of the job's UPDATE, because a statement that waits
  for a lock or a connection is served in its turn; weak fairness of `StartJob`, because the delay
  of a job passes. Requests, crashes and faults have none.
* `ChatLog`: weak fairness of a sweep, because `@Interval` starts it every minute and its commands are
  answered. Chats, expiry, crashes and failures have none.
* `Accounts`: weak fairness of the jobs, because Redis and the database answer or reject; of the expiry of a
  cache entry, because it is stored with a lifetime of a day; of replication, because the slave catches up.
  New requests have none.

`BallotBox` asks for weak fairness of serving a voter, and `Voting` is shown to provide it.

## 6. Proofs

All theorems hold for every number of sessions, users, addresses, connections and requests, under
the named assumptions of the modules (identities are not values of another kind, sets that
are counted are finite, bounds are naturals). Two hypotheses are stated with their theorems
and hold in their runs: `NobodyShares` (the refinement) and `OneSweeper` (the paging of chats).

* `VotingProofs`. `TypeCorrect`. `RaceInvariant`: `OneBallotUnlessRaced` is not inductive, because it says
  nothing of a handler between its lookup and its write. `RaceInv` adds what such a handler still knows: who
  is about to insert found nothing and nothing came since (`InsertersClear`), two who are about to insert for
  one voter raced (`InsertersApart`), so did two who hold one row (`HoldersApart`), and a row gone before its
  save belongs to a voter who raced (`SaversCurrent`). From it follow `OneBallotUnlessRacedAlways` and, as an
  action property, `CancelledStays`. `ConnectionsOwned` is inductive by itself, and `PoolIsLive` follows from
  it by counting: waiting handlers hold at most one connection each. `OnlyItsVoterTouches` (a ballot takes a
  side only at the hands of a request that reaches it and asked for that side, and goes there or over the
  DELETE route) needs what a handler holds between its lookup and its write: a row it reaches, inside its
  transaction (`TargetsReached`).
* `LikesProofs`. `TypeCorrect`; `WritesMatchLookups`, the inductive `LikesInv`: what a request is about
  to write is what its lookup read, two requests do not aim at one user, and the counter differs
  from the table by the steps still to be made (`Balanced`, over cardinalities). `CounterIsExact` is
  its instance with nothing in flight. `LikesTouched` is an action property.
* `TrialsProofs`. `NoneForgotten`, by an invariant that follows a creation from `InsertTrial` to
  `CommitTrial`: ids in flight are fresh and, once `AddJob` is done, queued, active, missed or over.
  `OverStays` is an action property: no step but `UpdateTimeDone` writes `over`, and it only adds.
  `OwnPollLost` needs `DriftInv`: as long as nothing drifted, the creations between their INSERTs hold exactly
  the trial numbers the sequence of polls has still to reach (`InStep`), whatever numbers rejected INSERTs
  used up, so the next to save its poll, if it overtakes nobody, draws the number of its trial (`SameNumber`).
  `TypesHold` counts the requests that have still to draw a number and the open transactions (`Counted`) and
  keeps numbers in flight apart from those of trials (`Fresh`).
* `SignUpProofs`. The invariant `SignUpInv` numbers accounts in the order of their ids, so that "fresh" can
  be said (`NumbersFresh`, `NumberFits`), and follows the one UPDATE and the one transaction that change
  the row: a replacement found the row unverified or someone's verification came between
  (`ReplacesUnverified`), who spends a code has verified its account or is misled (`SpendersVerified`),
  and a code in Redis or on its way there is that of the row, or of an account marked crossed
  (`CodesAreOfRow`). From it follow the types, `ThankedIsVerified`, `VerifiedIsKept` and
  `CodeFitsAccount`.
* `PushProofs`. `OneRowPerEndpoint` says nothing of rows in flight. `PushInv` adds where rows come from
  (`RowsHaveOrigin`: everything that ever stands under an id, on the master, the slave or the way there, and
  everything an announcement or a registration has read, belongs to the account that was inserted there
  first, and a visitor's row never changes) and that a registration whose browser has not clashed is alone
  and has cleared the endpoint of all rows but its own before it saves (`RegistrationsApart`). The one
  row of an endpoint on every copy (`CopiesHaveOneRow`), `AcceptedStaysRegistered` and, over what an
  announcement still has to send (`SendsApart`), `ToldOnce` follow.
* `SiteProofs`. *Boards*: `BoardsInv` says what is left of a handler: its steps keep their order
  (`StepsInOrder`), no two creations or insertions are under way (`OneCreation`, `OneInsertion`), every
  version of the store fits what the master has (`VersionsFit`), what a handler kept was there (`LookupsFit`).
  `PostHasPoll`, `ViewsKept`, the types with the connections (`ConnectionsCounted`) and the action property
  `UndoneOnlyByStaleEdit` follow. *Accounts*: versions of the row reach the slave in order and their ids grow
  (`IdsGrow`); the id of a token has reached it (`TokensReplicated`); so what is found missing is older than
  the slave's row (`MissingIsOld`), which is `LockedOutOnlyIfReplaced`. That ids stay within the requests is a
  count of the creations in flight (`IdsBounded`). `NoRenewal` needs only which prefixes are ever stored.
  *Halls*: a rebuild that ranks has counted all polls of last week, and every total it or another server has
  stored, or is about to, takes in the ballots of the days before that still stand (`TotalsCurrent`,
  `SumsCurrent`): `RankedOnlyWhenCounted`. A poll is counted in the week after it was made (`WeekAfterMade`),
  and no step changes a ranking (`HallsUntouched`). *Site*: a step of one part stutters in the others
  (`SiteIsItsParts`, which carries fairness along), so the site has what each part promises
  (`SiteKeepsPromises`). *Pages*: arithmetic of page numbers for lists of every length (`BoardBarShowsPage`,
  `HallBarLosesPages`, `EveryRowOnOnePage`).
* `ChatProofs`. *What is lost*: `LossBounded` says nothing of a sweep between its LRANGE and its LTRIM.
  `LossInv` adds that what such a sweep would trim now, and nobody has archived, is counted in `debt`
  already (`FlushesAccounted`): a push during a flush moves at most one more chat over the edge and adds
  one to `debt`, and a trim drops no more than that, whichever of several sweeps archived first.
  *What is shown*: `PagesInv` says of every reader that has taken page 0 that a chat of its channel has been
  shown or told, is lost, was refused or is still to be told, or stands in the sorted archive behind the
  documents that the pages so far have passed (`Covered`, `Ahead`). It is kept because the archive only
  grows, so that a document never moves towards the front (`UpToGrows`); because a page that does not hold
  a document standing behind its skip is full and ends before it (`PageOrLater`, which rests on the
  existence of the least such document, `NextDocument`); and because the list is never shorter than it was
  counted, up to a page (`CountsLow`), so that a later skip is no larger. That what a sweep inserts is still
  on the list (`BatchOnList`) is where one sweep at a time is needed: `PagesShowEverythingAlways` assumes
  `OneSweeper`, as its run does, and speaks of behaviours up to the first expiry, as the property does.
* `RoomProofs`. `ScreensRight` and `AnnouncedWhenHot` speak of the moment when the voting rests. `HotInv` says
  what holds before, as long as nothing slipped: once every ballot is counted and nothing overtaken is still to
  be delivered, the one count still to be told is right, or the pages show the right one or are about to
  (`CountsInOrder`); and the casts that left the poll hot are those announced, those of a handler about to
  announce, and the one about to be counted (`HotCastsRing`). `PushSafeInRoom` shows that announcements made
  by the room's handlers keep the invariant of `PushClients`; `RoomVotesAsBallotBox` that all the room adds to
  `BallotBox` stutters.
* The refinement. `VotesAsBallotBox` (in `VotingProofs`) is the safety half of `ImplementsBallotBox`: `Init`
  maps to `Init` and every step to a step or a stutter. It assumes of the constants what the run has, that no
  two sessions share a voter or a guest's address (`NobodyShares`), so it says nothing of the races of
  `OneBallotUnlessRaced`. `AloneInv` adds that then nobody races, every row is some session's, and a handler
  about to flip or cancel holds the one row its voter has, unless a stranger cancelled it over HTTP meanwhile.

Model-checked only: liveness (`EveryRequestEnds`, `EveryTrialCloses`, `ListsAreCutBack`, `RenameShows`, and
the fairness of `ImplementsBallotBox`), which is out of the prover's reach; and what `HallPage` and
`Digits` compute, which TLC checks over bounded lists.

## 7. Not modelled

* Editing the subjects of a political poll (`updateSubject` and its relatives): no route reaches them.
* The lifetime of an access token, the cookie it travels in and the guard that makes it optional: a tab
  has an account or none.
* Which nickname a visitor gets in a chat (`nickname.service.ts`): random, kept for a day.
* The retries of the mail queue: a code is mailed once in the model, after it was stored.
* Ballots after the end of a trial: `createVote` never reads `is_time_over`, so `Voting` leaves the
  trial out.
* Search, images, logging, views, documentation of the API: no state of their own, or external.
* Firebase messaging and a second vote gateway are commented out; `humors/humors_votes.service.ts` and
  `poltical_debates/poltical_debates_vote.service.ts` are provided by no module any more.
* The read-only listings of trials, which are single queries on the slave; the order and the cut of a
  list page are in `Pages`.
* Percentages: pages show two percentages computed from the two counts; the models keep the counts.
  A poll without ballots shows 0% twice, as the count zero does in the model.
* Guards that only look at a token. Who is signed in is a constant of the instance.
