------------------------------ MODULE Accounts ------------------------------
(***************************************************************************)
(* The account of one email address after sign-up: log-in (local and       *)
(* through kakao, naver or google), refresh tokens, the nickname, and the  *)
(* cache of accounts that every authenticated request and every list page  *)
(* reads (UsersService.findById).                                          *)
(*                                                                         *)
(* Lookups read the slave, writes go to the master.  Signing up again      *)
(* replaces an account that is not verified by one with a new id.  The     *)
(* statements inside that transaction, and the codes a verification asks   *)
(* for, are in SignUp; the posts an account has are in Boards and Trials.  *)
(***************************************************************************)
EXTENDS Naturals, Sequences, FiniteSets

CONSTANTS
  Jobs,       \* requests in flight
  Names,      \* nicknames
  MaxCalls,   \* bound: requests that may write
  Missing,    \* what the cache holds for an id without a row ("null")
  NoEntry     \* no entry in the cache

ASSUME AccountsAssumption ==
  /\ IsFiniteSet(Jobs) /\ MaxCalls \in Nat /\ Names # {}
  /\ Missing \notin Names /\ NoEntry \notin Names /\ Missing # NoEntry

VARIABLES
  account,    \* master: the UserInfos row of the address
  copy,       \* the slave's copy of it
  unshipped,  \* versions of it the slave has not applied yet
  serial,     \* ids given so far
  cache,      \* Redis: the entry id:<id> of each id
  issued,     \* ids for which an access token has been issued
  refresh,    \* Redis: prefixes under which refresh tokens are stored
  renewed,    \* history: a refresh token has been accepted
  job,        \* the request each job serves and where it stands
  calls       \* requests made so far (bounded by MaxCalls)

accountDB    == <<account, copy, unshipped, serial>>
accountsVars == <<accountDB, cache, issued, refresh, renewed, job, calls>>

Ids     == 1..MaxCalls
Row     == [id : {0} \cup Ids, name : Names, verified : BOOLEAN]
NoRow   == [id |-> 0, name |-> CHOOSE n \in Names : TRUE, verified |-> FALSE]
Idle    == [op |-> "none", at |-> "idle", id |-> 0, name |-> NoEntry]

Addressed == {"signUp", "verify", "social", "login"}  \* by the email
Personal  == {"rename", "delete"}                     \* by the id of the token

-----------------------------------------------------------------------------
AccountsInit ==
  /\ account = NoRow /\ copy = NoRow /\ unshipped = <<>> /\ serial = 0
  /\ cache = [i \in Ids |-> NoEntry]
  /\ issued = {} /\ refresh = {} /\ renewed = FALSE
  /\ job = [h \in Jobs |-> Idle] /\ calls = 0

On(h, at)        == job[h].at = at
GoTo(h, at)      == job' = [job EXCEPT ![h].at = at]
GoWith(h, at, i) == job' = [job EXCEPT ![h].at = at, ![h].id = i]
Done(h)          == job' = [job EXCEPT ![h] = Idle]

Ship ==
  /\ unshipped' = Append(unshipped, account')
  /\ UNCHANGED copy

Call(h, op) ==
  /\ On(h, "idle") /\ calls < MaxCalls
  /\ calls' = calls + 1
  /\ \/ /\ op \in Addressed
        /\ \E n \in Names :
             job' = [job EXCEPT ![h] =
                       [op |-> op, at |-> "find", id |-> 0, name |-> n]]
     \/ /\ op \in Personal
        /\ \E i \in issued, n \in Names :
             job' = [job EXCEPT ![h] =
                       [op |-> op, at |-> "findId", id |-> i, name |-> n]]
     \/ /\ op = "renew"
        /\ job' = [job EXCEPT ![h] = [Idle EXCEPT !.op = op, !.at = "renew"]]
  /\ UNCHANGED <<accountDB, cache, issued, refresh, renewed>>

\* A request with a token, or a list page that shows a post of the account:
\* its author had one.
Read(h) ==
  /\ On(h, "idle")
  /\ \E i \in issued :
       job' = [job EXCEPT ![h] =
                 [op |-> "read", at |-> "get", id |-> i, name |-> NoEntry]]
  /\ UNCHANGED <<accountDB, cache, issued, refresh, renewed, calls>>

-----------------------------------------------------------------------------
(* By the address.                                                         *)

\* findByEmail, and for a log-in the lookup with the password; what each
\* request makes of the answer.
FindByEmail(h) ==
  /\ On(h, "find")
  /\ LET op == job[h].op IN
     CASE op = "signUp" -> IF copy.verified THEN Done(h)
                           ELSE GoWith(h, "replace", copy.id)
       [] op = "verify" -> IF copy = NoRow THEN Done(h)
                           ELSE GoWith(h, "verify", copy.id)
       [] op = "login"  -> IF ~copy.verified THEN Done(h)
                           ELSE GoWith(h, "store", copy.id)
       [] op = "social" -> IF copy = NoRow THEN GoTo(h, "create")
                           ELSE GoTo(h, "token")
  /\ UNCHANGED <<accountDB, cache, issued, refresh, renewed, calls>>

NewAccount(h, verified) ==
  /\ account' = [id |-> serial + 1, name |-> job[h].name,
                 verified |-> verified]
  /\ serial' = serial + 1
  /\ Ship

\* The account that was found is deleted and a new one saved; the address is
\* unique, so this fails when another account has taken it meanwhile.
ReplaceAccount(h) ==
  /\ On(h, "replace")
  /\ IF account.id \in {0, job[h].id} THEN NewAccount(h, FALSE)
     ELSE UNCHANGED accountDB
  /\ Done(h)
  /\ UNCHANGED <<cache, issued, refresh, renewed, calls>>

VerifyEmail(h) ==
  /\ On(h, "verify")
  /\ IF account.id = job[h].id
     THEN /\ account' = [account EXCEPT !.verified = TRUE]
          /\ UNCHANGED serial /\ Ship
     ELSE UNCHANGED accountDB
  /\ Done(h)
  /\ UNCHANGED <<cache, issued, refresh, renewed, calls>>

\* A rejected save is rolled back, and the log-in goes on without it.
CreateProviderUser(h) ==
  /\ On(h, "create")
  /\ \/ account = NoRow /\ NewAccount(h, TRUE)
     \/ UNCHANGED accountDB
  /\ GoTo(h, "token")
  /\ UNCHANGED <<cache, issued, refresh, renewed, calls>>

\* Mutation: the token is made from the account just saved, not looked up.
CreateTokenOfSaved(h) ==
  /\ On(h, "token")
  /\ IF account = NoRow THEN Done(h) ELSE GoWith(h, "store", account.id)
  /\ UNCHANGED <<accountDB, cache, issued, refresh, renewed, calls>>

\* createToken looks the address up again; what the slave does not have yet
\* is a TypeError, and the log-in fails.
CreateToken(h) ==
  /\ On(h, "token")
  /\ IF copy = NoRow THEN Done(h) ELSE GoWith(h, "store", copy.id)
  /\ UNCHANGED <<accountDB, cache, issued, refresh, renewed, calls>>

SocialPrefix == "loginId"
LoginPrefix == "refreshToken"
AskedPrefix == "refresh_token"

\* The refresh token is stored, then the access token is in the answer.
StoreToken(h) ==
  /\ On(h, "store")
  /\ refresh' = refresh \cup
       {IF job[h].op = "login" THEN LoginPrefix ELSE SocialPrefix}
  /\ issued' = issued \cup {job[h].id}
  /\ Done(h)
  /\ UNCHANGED <<accountDB, cache, renewed, calls>>

Renew(h) ==
  /\ On(h, "renew")
  /\ renewed' = (renewed \/ AskedPrefix \in refresh)
  /\ Done(h)
  /\ UNCHANGED <<accountDB, cache, issued, refresh, calls>>

-----------------------------------------------------------------------------
(* By the id: the nickname, and the cache.                                 *)

\* The users have no column for a soft delete: deleting an account is rejected
\* after its lookup, whatever that returned.
FindOneById(h) ==
  /\ On(h, "findId")
  /\ IF copy.id = job[h].id /\ job[h].op = "rename" THEN GoTo(h, "rename")
     ELSE Done(h)
  /\ UNCHANGED <<accountDB, cache, issued, refresh, renewed, calls>>

\* UPDATE ... WHERE id; the cache is left as it is.
Rename(h) ==
  /\ On(h, "rename")
  /\ IF account.id = job[h].id
     THEN /\ account' = [account EXCEPT !.name = job[h].name]
          /\ UNCHANGED serial /\ Ship
     ELSE UNCHANGED accountDB
  /\ Done(h)
  /\ UNCHANGED <<cache, issued, refresh, renewed, calls>>

GetCached(h) ==
  /\ On(h, "get")
  /\ IF cache[job[h].id] = NoEntry THEN GoTo(h, "load") ELSE Done(h)
  /\ UNCHANGED <<accountDB, cache, issued, refresh, renewed, calls>>

LoadById(h) ==
  /\ On(h, "load")
  /\ job' = [job EXCEPT ![h].at = "set", ![h].name =
               IF copy.id = job[h].id THEN copy.name ELSE Missing]
  /\ UNCHANGED <<accountDB, cache, issued, refresh, renewed, calls>>

SetCached(h) ==
  /\ On(h, "set")
  /\ cache' = [cache EXCEPT ![job[h].id] = job[h].name]
  /\ Done(h)
  /\ UNCHANGED <<accountDB, issued, refresh, renewed, calls>>

\* Mutation: SET without EX.
KeptForever(i) == FALSE /\ UNCHANGED accountsVars

\* SET ... EX 86400.
Expire(i) ==
  /\ cache[i] # NoEntry
  /\ cache' = [cache EXCEPT ![i] = NoEntry]
  /\ UNCHANGED <<accountDB, issued, refresh, renewed, job, calls>>

\* The password is wrong, the code is, or a statement is rejected.
Refuse(h) ==
  /\ ~On(h, "idle")
  /\ Done(h)
  /\ UNCHANGED <<accountDB, cache, issued, refresh, renewed, calls>>

ReplicateAccount ==
  /\ unshipped # <<>>
  /\ copy' = Head(unshipped) /\ unshipped' = Tail(unshipped)
  /\ UNCHANGED <<account, serial, cache, issued, refresh, renewed, job, calls>>

-----------------------------------------------------------------------------
JobSteps(h) ==
  \/ FindByEmail(h) \/ ReplaceAccount(h) \/ VerifyEmail(h)
  \/ CreateProviderUser(h) \/ CreateToken(h) \/ StoreToken(h) \/ Renew(h)
  \/ FindOneById(h) \/ Rename(h)
  \/ GetCached(h) \/ LoadById(h) \/ SetCached(h)

AccountsNext ==
  \/ \E h \in Jobs :
       \/ \E op \in Addressed \cup Personal \cup {"renew"} : Call(h, op)
       \/ Read(h) \/ JobSteps(h) \/ Refuse(h)
  \/ \E i \in Ids : Expire(i)
  \/ ReplicateAccount

\* A request is answered, an entry expires, and the slave catches up.
AccountsFairness ==
  /\ \A h \in Jobs : WF_accountsVars(JobSteps(h))
  /\ \A i \in Ids : WF_accountsVars(Expire(i))
  /\ WF_accountsVars(ReplicateAccount)

AccountsSpec ==
  AccountsInit /\ [][AccountsNext]_accountsVars /\ AccountsFairness

-----------------------------------------------------------------------------
Job == [op   : Addressed \cup Personal \cup {"none", "renew", "read"},
        at   : {"idle", "find", "replace", "verify", "create", "token",
                "store", "renew", "findId", "rename", "get", "load", "set"},
        id   : {0} \cup Ids,
        name : Names \cup {Missing, NoEntry}]

AccountsTypeOK ==
  /\ account \in Row /\ copy \in Row /\ unshipped \in Seq(Row)
  /\ serial \in 0..calls
  /\ cache \in [Ids -> Names \cup {Missing, NoEntry}]
  /\ issued \subseteq Ids
  /\ refresh \subseteq {SocialPrefix, LoginPrefix} /\ renewed \in BOOLEAN
  /\ job \in [Jobs -> Job]
  /\ calls \in 0..MaxCalls

\* Who holds a token is never taken for missing, which would shut the account
\* out for a day, unless signing up again has replaced the account: a token is
\* made of a row the slave has, and the slave does not go back.
LockedOutOnlyIfReplaced ==
  \A i \in Ids : cache[i] = Missing => account.id # i

\* Why it holds, in an inductive form.  Versions of the row reach the slave in
\* order and their ids grow; every id of a token, and of a request made with
\* one, has reached the slave; what is, or is about to be, kept as missing is
\* older than the slave's row.
Creating == {h \in Jobs : /\ job[h].op \in {"signUp", "social"}
                         /\ job[h].at \in {"find", "replace", "create"}}

ById == {"store", "findId", "rename", "get", "load", "set"}

IdsBounded == serial + Cardinality(Creating) <= calls

RowsProper ==
  /\ account.id = 0 => account = NoRow
  /\ copy.id = 0 => copy = NoRow
  /\ \A k \in 1..Len(unshipped) : unshipped[k].id = 0 => unshipped[k] = NoRow

IdsGrow ==
  /\ copy.id <= account.id /\ account.id <= serial
  /\ \A k \in 1..Len(unshipped) :
       copy.id <= unshipped[k].id /\ unshipped[k].id <= account.id
  /\ \A j, k \in 1..Len(unshipped) :
       j <= k => unshipped[j].id <= unshipped[k].id

TokensReplicated == \A i \in issued : i <= copy.id

RequestFits(r) ==
  /\ r.at \in ById => r.id # 0 /\ r.id <= copy.id
  /\ r.at = "set" /\ r.name = Missing => r.id < copy.id
  /\ r.at = "verify" => r.id # 0
  /\ r.at = "find" => r.op \in Addressed
  /\ r.at = "replace" => r.op = "signUp"
  /\ r.at = "create" => r.op = "social"
  /\ r.at \in {"find", "replace", "create", "findId", "rename"} =>
       r.name \in Names

RequestsFit == \A h \in Jobs : RequestFits(job[h])

MissingIsOld == \A i \in Ids : cache[i] = Missing => i < copy.id

AccountsInv ==
  /\ AccountsTypeOK /\ IdsBounded /\ RowsProper /\ IdsGrow
  /\ TokensReplicated /\ MissingIsOld /\ RequestsFit

\* A new nickname shows in the end, although a rename leaves the cache alone
\* and a reader may store the old name after it: no stale entry is for ever.
RenameShows ==
  <>[](account = NoRow \/ cache[account.id] \in {NoEntry, account.name})

\* No refresh token is ever accepted: the two log-ins store it under prefixes
\* the renewal does not ask for.
NeverRenewed == ~renewed

=============================================================================
