# Formal models of gapi-server

TLA+ models of gapi-server (a Go/Gin backend on PostgreSQL, Redis and etcd): its
locks, jobs, directory, sessions, accounts and request chain, TLC configurations that check them on
small instances, and TLAPS proofs that carry the safety results to instances of
any size.

Paths below are relative to the root of the repository. `PROJECT.json` is the
machine-readable index: runs, mutants, the lines each definition translates,
findings, hazards, theorems.

    tlc -workers 2 -config MCEtcdLock.cfg MCEtcdLock
    tlapm EtcdLockProofs.tla

## 1. Inventory: the system and what is hard about it

Several server processes (one binary, `cmd/server`) share one database, one
Redis and one etcd. They meet in five places: the etcd locks, the `sys_cron_job`
row of a job, etcd's service directory, a user's row, and a user's keys in Redis.

| component | state | operations | hard behaviour | correct when |
| --- | --- | --- | --- | --- |
| **etcd lock**, `pkg/etcd/lock.go` | per call: a session (lease), the mutexes acquired; in etcd: one key per session and lock path, ordered by create revision | `Lock`, `TryLock`, `LockBatch`, `TryLockBatch`, `Unlock`, `rollback` | callers in many processes, contexts that end, lost answers, crashes, leases that lapse | one owner per lock; a batch is all or nothing; no circular wait; nothing leaks; calls return |
| **cron manager**, `internal/cronjob/manager.go`, `internal/handler/v1/cron_job.go` | `entryMap`, `cancelMap`, the cron scheduler and its chain, the job's row, execution rows, the job's lock | `Start`, `Stop`, `EnableJob`, `DisableJob`, `TriggerManual`, one goroutine per execution | overlapping runs, requests that race with runs and with `Stop`, several instances, lapsing leases | one scheduled run at a time; the right run is cancelled; scheduler and row agree; outcomes are recorded; `Stop` returns |
| **server process and registry**, `internal/server/server.go`, `internal/app/app.go`, `pkg/etcd/registry.go` | where main, the `OnReady` goroutine and `keepAlive` are; `r.cancel`, lease and key | hooks `OnStart`/`OnReady`/`OnStop`, `Register`, `Deregister`, `keepAlive` | a signal in the middle of `Register`; crashes; a lease that ends | only listening processes are found; deregistration is final; shutdown ends; the dead are forgotten |
| **discovery**, `pkg/etcd/discovery.go` | per prefix: instances, the watch and its unread answers | `Start`, `Stop`, `watchPrefix`, `loadPrefix`, `reloadPrefix` | changes between read, watch and store; failed reads; dead watches | no answered change is lost; the cache catches up |
| **sessions and lockout**, `internal/service/auth.go`, `internal/dal/user.go`, `internal/dal/token.go`, `pkg/jwt/jwt.go` | `login_fail_count`, `locked_until`, one refresh token per user in Redis | `Login`, `RefreshToken`, `Logout` | parallel requests of one account; separate reads and writes; failing writes; tokens of one second | guessing is bounded; logout sticks; replaced tokens are dead |
| **registration and activation**, `internal/service/auth.go`, `internal/dal/activation_code.go` | user rows with unique email and name, a code per user in Redis, mailboxes | `SignUp`, `VerifyEmail`, `ResendVerifyCode` | transaction, then Redis, then mail, each failing on either side of its effect; parallel sign-ups and renamings; resend against verify | one account per email and name; a code that was announced works |
| **captchas**, `internal/service/captcha.go`, `internal/dal/captcha.go` | answers and one-time tokens in Redis | generate and validate for three types, `ValidateAndDeleteCaptchaToken` | an answer is read and deleted in two calls | few guesses per captcha; each admitted request is paid for by a right answer |
| **profile and tours**, `internal/service/user.go` | the user's row with its list of tours | `UpdateProfile`, `UpdateCompletedTours` | read, merge and write of a list next to writes of other columns | tours stay, profile updates stay |
| **permissions**, `internal/dal/permission.go`, `internal/service/user.go` | roles of a user, rows of roles and permissions | `resolvePermissions`, the lists of a login, a profile, a module | roles and lists are separate queries; rows with both effects | deny beats allow, whatever changes meanwhile |
| **job records**, `internal/service/cron_job.go`, `internal/dal/cron_job.go` | the job's row, the history of its executions | `SyncJobDefinitions`, `UpdateEnabled`, `RecordStart`, `RecordEnd`, `FindByPage` | releases that synchronise over a switched-off job; rows added between two pages, or between a page and its count | what is off stays off; a client pages through all of it |
| **balancers**, `pkg/etcd/balancer.go` | a counter | round robin, random, weighted | overlapping picks of changing lists, wrap-around, weights of zero and less | shares are even, or as the weights say |
| **configuration and startup**, `internal/config`, `internal/provider`, `cmd/*`, `internal/app` | viper layers and a snapshot of them, the clients a process has opened | files, environment, etcd, merged once; open in wire's order, close in `Close`'s | the remote key changes while processes start; any step fails | processes of one environment agree, of two differ only where files do; nothing stays open |
| **middlewares**, `internal/middleware`, `internal/router` | a counter in Redis; what a request has met on its way | trace, language, validator, recovery, logger, CORS, limit, authentication | who answers, who runs after that, panics that pass by others | one answer, one line in the log, the limit holds, handlers know their user |
| **call logs**, `pkg/redis/hook.go`, `pkg/database/logger.go`, `pkg/logger` | levels | hooks of Redis, logger of GORM | three levels on top of each other; slow and failed at once | a failure is in the log with its trace id |

What keeps no state of its own or only formats is not modelled: drawing captcha
images, rendering and sending mail, layout and rotation of logs, the wording of
responses, flags and output of commands, API documents, and the part of the
generated query builder that has no caller. `PROJECT.json` lists every part with
what is modelled of it.

**Interactions.** The cron manager calls the lock (`TryLock` before, `Unlock`
after an execution) and the recorder (database). The admin handlers write the row
and then call the manager of the instance that serves the request. Server hooks
start `[discovery, jobManager, registry]` in this order and stop them in reverse;
the registry hook runs `Register` once the process can connect to itself, in a
goroutine of its own. Discovery reads what the registries of other processes
wrote, and the balancers choose from what discovery read. Sign-up and resend
spend captcha tokens, activation sets what `Login` checks, a profile update
renames what sign-up finds taken. Every request passes the middlewares, and every
call of Redis or the database the call logs.

## 2. Modules

| module | models | depends on |
| --- | --- | --- |
| `LockService` | the abstract promise: a lock has at most one owner, is granted only when free, and is given back | |
| `EtcdLock` | `lockBatch`, `Unlock`, `rollback` call by call over etcd's queues of keys | refines `LockService` |
| `CronManager` | one job on several instances, its runs and requests | uses `LockService` for the lock |
| `ServerNode` | the life of server processes and their registration | |
| `Discovery` | observers of one directory | |
| `ServiceDirectory` | servers and observers joined by the directory | extends `ServerNode`, instances `Discovery` |
| `Auth` | requests of one account over its row and its token | |
| `Accounts` | sign-ups, verifications and resends of any number of accounts | |
| `AccountsActivated` | the same with a history of verified emails, for one finding | extends `Accounts` |
| `Captcha` | answers and tokens of captchas | |
| `Profiles` | one user's row under profile and tour updates | |
| `Permissions` | the permission lists while the tables change | |
| `JobRecords` | the row and the history of one job | |
| `Balancers` | picks of a list | |
| `Startup` | layers, opening and closing of processes | |
| `Requests` | the chain of middlewares and handler | |
| `CallLogs` | the lines that calls leave | |
| `Backend` | the nine modules from `Accounts` to `CallLogs`, one at a time | extends those but `AccountsActivated` |
| `EtcdLockProofs`, `CronManagerProofs`, `AuthProofs`, `AccountsProofs`, `CaptchaProofs` | the theorems about the module they are named for | |
| `ServiceDirectoryProofs` | those about `ServerNode` and `ServiceDirectory` | |
| `RowsProofs` | those about `Profiles`, `Permissions` and `JobRecords` | |
| `BackendProofs` | those about `CallLogs`, `Requests`, `Startup`, `Balancers`, and about `Backend` | extends the proofs of the other parts |
| `MCEtcdLock`, `MCCronManager`, `MCAuth`, `MCBackend` | symmetry sets for TLC | |

The modules without an MC module need no symmetry: their configurations name
them directly. Definitions marked *Mutation* are not part of a next-state
relation; each is a plausible bug that some property must catch.

### EtcdLock

A member of `Sess` is a slot for one `LockResult`: the goroutine in `lockBatch`,
its session, and the caller that unlocks later. One action per round trip:

| action | code |
| --- | --- |
| `Call`, `NewSession` | `Lock`, `TryLock`, `LockBatch`, `TryLockBatch`: the session, the keys of the batch |
| `TryAcquire` | `mutex.Lock`/`TryLock`: the transaction that puts the key; free, queued, or refused |
| `AcquireError`, `WaitError` | an error, a cancelled context or a timeout, before or after the key was put |
| `WaitDone` | the last key in front of ours disappeared |
| `Undo` | `Lock` deletes the key it gave up waiting for |
| `Unlock`, `UnlockKey`, `Close` | the caller's `Unlock` or the `rollback`, key by key backwards, then `session.Close` |
| `Crash`, `Expire`, `Lapse` | process death, the TTL, a cut keepalive under a live holder |

The queues of etcd's `concurrency.Mutex` are external code. They are kept as
`present` (who has a key) and `ahead` (who was there before me): the create
revisions themselves do not matter, only their order. Equal keys in one call are
one (the mutex is re-entrant within its session), so a batch is a set.

### CronManager

One job; jobs share only `m.mu`. `Runs` are goroutines, `Reqs` HTTP requests in
flight, `Entries` the cron ids of an instance. `Start` to `Crash` are the life of
the manager and its process (an instance of `Off` may start with the scheduler
off, where the maps exist but nothing fires and `EnableJob` panics on the nil
scheduler); `SetEnabled`, `EnableCheck`, `EnableAdd`, `EnableMap`, `EnablePanic`,
`DisableJob`, `TriggerManual` are the handlers and the critical sections of the
manager; `Fire`, `Admit` (the chain of robfig/cron, by `Mode`), `Register`,
`TryLock`, `RecordStart`, `Handle`, `RecordEnd`, `Unlock`, `Cleanup`, `ManualEnd`
are an execution, deferred calls included. `Expire` and `Lapse` are the lease of a
run. The lock is an instance of `LockService`: the step that takes or gives it
is one of that specification, and `EtcdLock` shows that etcd's locks behave so.

### ServerNode, Discovery, ServiceDirectory

`ServerNode` has the three goroutines of a process as `main`, `ready` and
`keeper`. `Launch` to `StopRest` are `Run` with its hooks, `Dial` to
`ReadyReturns` are `invokeOnReady` and `Register`, `KeepAlive` and
`KeepAliveEnds` are the renewal, `Expire` is the TTL. `CtxDone` is the context
`keepAlive` really runs under.

`Discovery` has, per prefix, the goroutine of `watchPrefix`: `Load`, `Watch`,
`Receive`, `Get`, `Store`, `WatchFails`, `Stop`. A ghost `missed` marks a cache
that lacks a change for which no answer of the watch will come: one between the
read of `Start` and the opening of the watch, or one whose `Get` failed.
`ServiceDirectory` replaces the free changes of `Discovery` by the keys of
`ServerNode`: every step of a server is also a `Notify` of the observers.

### Auth

One enabled account. `Login`, `Compare`, `IncrementLoginFail`, `LockUser`,
`UpdateLastLogin`, `GenerateTokenPair`, `StoreRefreshToken` are the calls of
`Login` and `RefreshToken` to the database, the clock and Redis; `Logout` is one
call. A refresh token is the second of its issue, because `pkg/jwt` signs nothing
else that differs between two tokens of a user. A request that is refused
without a write (locked account, wrong token) changes nothing and is not a step.
Ghosts: `guesses` (wrong passwords since the last success or lock), `dbFailed`,
`ended` (a logout no refresh overlapped, and no login since).

### Accounts

A member of `Reqs` is a request in flight; its `pc` is the call it makes next:

| action | code |
| --- | --- |
| `SignUp`, `ResendVerifyCode` | the handlers up to and with the `DEL` of the captcha token (`Spend`) |
| `FindByEmail`, `FindByUsername`, `Create`, `Commit` | the transaction of `Register` |
| `FindDisabled` | the read of `ResendVerifyCode` |
| `StoreActivationCode`, `SendVerificationCode` | `sendActivationCode` |
| `VerifyEmail`, `EnableUser`, `DeleteActivationCode` | `VerifyEmail`: the code compared, the row, the key |
| `UpdateProfile`, `Disable` | a profile update's rename; an operator in SQL |
| `IssueToken`, `TokenExpires`, `SpendFails`, `CodeExpires`, `Crash` | a solved captcha, TTLs, an error of the `DEL`, the end of a process |

The transaction is READ COMMITTED: a read sees the committed rows, and an
`INSERT` that meets an uncommitted row in a unique index is not enabled until that
transaction has ended. `EnabledAtBirth` is what the column gets, not what the
struct says (section 5). `Disable` is there because otherwise no account would
ever be disabled, and resend and activation would have nothing to do. Ghosts:
`mailbox` (codes that arrived), `passes` (requests a token let through), `promised`
(emails whose owner was told of a code, until something the owner can know of, or
that is named in `PromisesKept`, voids it).

### Captcha

`answer` is the key of a captcha, `solver` the requests that post answers. The
three `Validate*` read a key under the prefix of their type; `DeleteAnswer` is the
`DEL`, whose error is only logged, with the comparison behind it, which has no
effect on Redis; `IssueCaptchaToken` stores a token, `SpendToken` is the `DEL` of a
sign-up. A guess is a tuple of Booleans, one per point or angle that was sent
(near or not), so that click answers of the wrong length are there as well.
`tries`, `solved`, `held`, `admitted`, `undeleted` are history.

### Profiles, Permissions, JobRecords

`Profiles` has one row: `StartTours` reads it, `WriteTours` writes the one column
with what the read and the request merge to; `WriteProfile` writes the other
columns, counted by edits, and `ReadBack` answers. `kept` are the tours whose
update was alone: two overlapping tour updates may overwrite each other in the
code, and the property does not claim otherwise.

`Permissions` runs one request (`ReadRoles`, then `Query` by `Query`) against
tables that operators change between any two of its queries. A pair of role and
permission may have rows of both effects, since the unique index is over
live rows and the join does not look at `deleted_at`. `moved` marks the codes an operator
touched since the roles were read.

`JobRecords` has the upsert, the switch, the two writes of an execution and its
last status, with errors where the code only logs them, and a client that reads
pages until it has seen `total` rows. Ids are taken out of order, because a
sequence hands them out before the rows are committed. `FindPage` and
`CountRows` are the two statements of the generated `FindByPage`, of which the
second is left out when a page is neither full nor empty.

### Balancers, Startup, Requests, CallLogs

`Balancers`: `GetInstances` copies the list, `PickNext` is the atomic `Add` and the
remainder of a counter of `W` bits; `PickWeighted` is the weighted choice as a
function of the number drawn, checked against the weights for every list.

`Startup`: a process walks `Plan(entry)`, the order of its `wire_gen.go`, and may
fail at each step; then `CloseOrder(entry)`, where an error is logged and the next
resource follows. A configuration says of each setting which layer it is from:
`configs/default.yaml`, the file of the process's environment (`Overrides`; the
files give one setting each), or a write of the remote key. `LayerOf` is the layer
that the readers of a setting hold: for `log` and `etcd` that of the bootstrap's
snapshot, taken before the remote layer. So processes of one environment agree,
and a `dev` and a `prod` process on one key differ in `log.stdout` always and in
`redis.maint_notifications` unless the key gives it; `OneConfiguration` says that
they differ in nothing else.

`Requests`: `request[c].i` is the place in `Chain`; a middleware passes on (`On`),
answers and aborts (`Refuse`), and `Return` or `Recover` is the way back. The rate
limiter's counter is one for all instances. `Route` takes the request to any handler
that a registrar has put on a route, with `JWTAuth` in front of it or without, and
marks whether the handler will ask who the user is. A handler is one step that
answers or panics; what it does is in the other modules.

`CallLogs`: a call of a kind, with or without a trace id, the lines before and
after it under all levels.

### Backend

These nine modules share no variable, and no property speaks of two of them. Their
interleavings would multiply states and show nothing, so `Backend` chooses one
`part` in its initial states; the steps of a behaviour are that part's and the
others rest. One run thus checks each module by itself, over all its states.
What they do share in the program is modelled where it matters: `Accounts` has
the captcha tokens it spends and the renaming it collides with.

## 3. Runs

| run | what it shows | bounds, and why they are enough |
| --- | --- | --- |
| `lock` | `LockInv` (the invariant of the proofs), `WaitsAscend`, `NothingLeftBehind`, `MutualExclusion`, `BatchIsWhole`; `ImplementsLockService`, `OnlyOwnerReleases`; `EveryCallReturns`, `OrphansReclaimed` | 2 callers, 2 keys: opposite orders need two of each; the lease of one may lapse while it lives. No symmetry, since liveness is checked. Longer queues are covered by the proofs |
| `cron_one` | `NoStaleCancel`, `SchedulerMatchesDB` | 1 instance, all requests (one at a time), 3 runs, 2 entries: enabling after a disable gives a run of the old entry, one of the new, and a manual one |
| `cron_two` | `CronInv`, `ScheduledExclusive`, `NoLeakedLock`, `OutcomeRecorded` | 2 instances, 3 runs, lapsing leases and crashes: the least at which a lapsed run overlaps its successor while a third waits |
| `cron_live` | `Cancellable`; `EveryRunEnds`, `StopReturns` | delay mode, 2 runs, 1 request: one run executes, one waits in the chain, while `Stop` or a forced disable comes |
| `directory` | `NodeInv`, `ObserversKnow`, `DiscoverableListens`, `DeregisteredForGood`; `ShutdownCompletes`, `CacheFollows`, `GoneLeaveCaches` | 1 server (servers do not interact; its slot is reused by successors), 1 observer (prefixes are independent), 1 other instance, 3 unread answers: changes arrive during receive, read and store of an earlier one |
| `auth` | `AuthInv`, `GuessesBounded`, `LogoutSticks`; `DeadTokensStayDead` | 3 requests, 3 failures lock, 2 seconds: two requests overlap a third, tokens of one second and of two |
| `backend` | `BackendTypeOK`, `OneAccountEach`, `PromisesKept`, `CaptchaSafe`, `ProfileSafe`, `PermissionsTrue`, `RecordsSafe`, `BalancersFair`, `StartupSafe`, `RequestsSafe`, `FailuresTraced` | below |
| `cron_copies`, `node_stays`, `auth_exchange`, `accounts_active`, `config_layers` | each one statement of the documentation that the code does not keep (section 5) | the smallest instance that has the case |

The parts of `backend`:

| part | bounds | the cases they contain |
| --- | --- | --- |
| accounts | 2 requests, 2 emails, 2 names, 2 codes, 1 captcha token, `MaxUsers` = 2 | two sign-ups that share an email, a name, both or neither; a resend within a verification; both codes of a mailbox |
| captcha | 1 captcha (they share nothing), 3 requests, `MaxTries` = 4, 2 dots | all three read before one deletes, and one more after an undeleted answer |
| profiles | 2 requests, 3 tours, 2 of them configured, a limit of 2, `MaxEdits` = 2 | stale merges next to each other and to edits; a tour that the configuration no longer names; the limit |
| permissions | 2 roles, 2 codes, one of the menu, one of a route and a module, every content of the tables | allow here and deny there, both in one role, changes between queries |
| records | 1 release, 1 run of one outcome, `MaxRows` = 3, pages of 1 and 2 (`MaxPageSize`, `DefaultPageSize`) | full, short and empty pages; a row that comes between page and count |
| balancers | 2 pickers, up to `MaxInstances` = 3 instances of weight 0 or 2, `MaxPicks` = 2, `W` = 2 bits | a pick of an old list; a wrap that 3 does not divide |
| startup | 2 processes of any entry point and environment, `MaxWrites` = 1, any set of settings in the key | one reads before, one after the write; two environments on one key; each step fails |
| requests | 2 requests, a limit of 1, `MaxCount` = 2 | the second is over the limit, or counted with an error |
| calls | all levels | every combination |

`MaxUsers`, `MaxTries`, `MaxEdits`, `MaxRows`, `MaxInstances`, `MaxPicks`, `MaxWrites`,
`MaxCount` and `W` (64 in the code) bound the models and not the code. Others of that kind: `MaxUnread` answers in the channel of a watch (a
further change is dropped from the count, but not from what the next `Get`
reads, and an unread answer stays in front of it), `MaxNow` seconds,
`login_fail_count` cut at the maximum (above it all values act alike), `guesses`
cut just above `GuessBound`, and `Runs`, `Reqs`, `Sess`, `Servers`, `Solvers`,
`Editors`, `Procs`, `Clients`, which bound what overlaps and not how often it
happens, as slots are reused.

Deadlock is checked in every run but two: an idle slot can always be called
again. In `backend` a bounded part may have nothing left to do (all captchas used
up, all edits made), and in `config_layers` the remote key is written once.

### Faults

`Faults` and `Lapsing` name what may go wrong in a run: `"etcd"` (an unlock that
is not revoked, a failing client call), `"db"`, `"redis"` (a call fails, its
effect done or not), `"crash"`, `"cut"`/`"lapse"` (a keepalive interrupted for
longer than the TTL), `"get"`/`"watch"` (discovery's reads), `"mail"` (a mail that
fails, sent or not). `RedisFails` and `RowFails` say the same of `Captcha` and
`Profiles`. In `EtcdLock` errors, cancelled contexts, lost answers and crashes are
always possible, as are failing writes in `JobRecords`, failing steps in `Startup`
and a failing Redis in `Requests`.

### Fairness

Stated only in the specifications named `FairSpec` and `DirFairSpec`, and only
for steps some scheduler owes:

- *goroutines run*: weak fairness of `Step`, `StopStep`, `ReadyStep`,
  `KeeperStep`, `ReqStep`, `ObserverStep`. For runs of cron it is strong
  (`SF(RunStep)`): a goroutine in `DelayIfStillRunning` waits for a `sync.Mutex`,
  which its starvation mode gives to each waiter in turn, while the guard of
  `Admit` becomes false whenever another run is admitted;
- *job code and lock holders are finite*: `Handle` returns (part of `RunStep`),
  a holder calls `Unlock` some day (`WF(Unlock)` in `EtcdLock`). Without them no
  waiting caller could be promised anything;
- *leases end*: a lease that nobody renews expires (`WF(Expire)`), which is
  etcd's TTL.

The modules of `Backend` state safety only: a request of theirs ends when the
libraries under it answer.

Nothing is fair that the outside decides: calls, clock ticks of cron, signals,
errors, crashes, lapses, and leases being cut.

## 4. Proofs

Every safety invariant and every action property that a run checks is a theorem
here. All theorems are about the specifications TLC checks, for any sets of
callers, instances, requests, servers, accounts and any fault sets. Each follows
one pattern: an inductive invariant, kept by every action (one proof step per
action), from which the property follows state by state, or for an action
property step by step. The parts of `Backend` are proved each about its own
specification (`AccountsSpec`, `RecordsSpec`, ...); `BackendRunsItsParts` shows that
a behaviour of `Backend` is one of every part, so that the theorems carry over.

| theorem | for | rests on |
| --- | --- | --- |
| `LockInvariant` | `LockInv` | `QueueInv`: `ahead` holds only sessions that have a key (`AheadPresent`), orders any two queued ones (`QueueOrder`) and is transitive (`AheadNested`); `LoopInv`: a caller has keys in etcd only for the mutexes it has and the one it is acquiring, in ascending order |
| `LocksExclude`, `BatchesAreWhole`, `NothingIsLeftBehind` | `MutualExclusion`, `BatchIsWhole`, `NothingLeftBehind` | `LockInvariant`. Exclusion alone is not inductive: that a waiter with nobody in front may become owner needs `QueueOrder` |
| `NoCircularWait` | `WaitsAscend` | the sorted order in `LoopInv`, and `AheadNested` within one key. The measure (key, sessions in front) rises along every wait, so no circle exists |
| `Refinement`, `OwnersReleaseOnly` | `ImplementsLockService`, `OnlyOwnerReleases` | `LockInvariant`; owners map to "acquired and key in etcd" |
| `CronInvariant` | `CronInv` | `RunShape` (what a program counter says about entry and instance), `HolderInv` (an executing scheduled run holds the lock or has lapsed), `SingleEntryInv` (one entry, one admitted run) |
| `SchedulerFollowsDB` | `SchedulerMatchesDB`, where there is one instance and one request at a time (`OneAtATime`, as in `cron_one`; with more it is false, section 5) | `MatchInv`: where the request in flight is tells how row, `entries` and `entryMap` may differ, between the update of the row and the last critical section; an instance that is down or starting has nothing registered and no request |
| `CronUsesTheLock` | `LockService`'s specification, as seen by the job's lock | each step of the manager is a `Grant`, a `Release` or no step of the lock |
| `ScheduledRunsExclude`, `CancelsAreFresh`, `NoLockLeaks`, `ExecutionsAreCancellable`, `OutcomesAreRecorded` | `ScheduledExclusive`, `NoStaleCancel`, `NoLeakedLock`, `Cancellable`, `OutcomeRecorded` | `CronInvariant` |
| `NodeInvariant`, `DiscoverableServersListen`, `KeysHaveLeases`, `DeregistrationLasts` | `NodeInv`, `DiscoverableListens`, `KeyHasLease` (a conjunct of `NodeInv`), `DeregisteredForGood` | `GoroutinesAgree`: what `main`, `ready` and `keeper` of a process know of each other |
| `DirectoryRunsServers`, `ServersInDirectory` | the server's properties, in `ServiceDirectory` | `DirSpec` implements `Spec` of `ServerNode`: what observers and other instances do is a stutter of the servers |
| `ObserversAlwaysKnow` | `ObserversKnow` | itself: truth in the cache, in what was read, or in an unread answer. Each step of `ServerNode` either leaves the directory alone or notifies every watch |
| `GuessesStayBounded` | `GuessesBounded` | a conjunct of `AuthInv` that counts: guesses made, requests that may still guess and requests whose last look at the counter is behind it together stay below `GuessBound`; cardinalities of finite sets step by step |
| `AuthInvariant`, `LogoutsStick`, `DeadTokensStay` | `AuthInv`, `LogoutSticks`, `DeadTokensStayDead` | no refresh is in flight while a session is ended; a generated token is stored or about to be |
| `AccountsApart`, `AccountsTyped` | `OneAccountEach`, `AccountsTypeOK` (in `BackendTypeOK`) | `LocalsInv` (a request about to commit has a row, no other has) and `RowsAdmitted` (committed and uncommitted rows do not conflict): two reads that found nothing prove nothing, only the index does |
| `TokensSpentOnce` | `TokenSpentOnce` (no run has it) | `TokensInv`: a token in Redis has let nobody through yet |
| `MailedCodesWork` | `PromisesKept` | `PromisesInv`: while a promise stands, whoever is about to delete the code has enabled the account; and `PromisesKept` itself |
| `GuessesRunOut`, `EveryRequestPaid`, `CaptchaHolds` | `AnswersRunOut`, `RequestsPaid`, `CaptchaSafe` | `Bounded`: comparisons made and requests that have read the answer are together no more than the requests there are, by a count over finite sets; `Paid`: right answers cover tokens, admitted requests and requests about to get one |
| `ToursStay`, `ProfilesStand`, `ProfileHolds` | `ToursKept`, `ProfileStands`, `ProfileSafe` | `ToursKeptInv`: an update in flight has read what it must keep |
| `PermissionsTyped`, `PermissionsHold` | `PermissionsTypeOK`, `PermissionsTrue` | itself: an answer given earlier stays right for the codes not in `moved`, since a change of a code's rows marks it |
| `RecordsTyped`, `SwitchesHold`, `RecordsHold` | `RecordsTypeOK`, `SwitchedAsSet`, `RecordsSafe` | `HistoryKept`: a row the client must see is among those it has seen, or its rank from the newest is beyond what the client has been past. A row added only moves others down, by a count over the ids above (`FS_AddElement`) |
| `FailuresAreTraced` | `FailuresTraced` | `CallLogsInv`: of a call under way, no line it has left is an error |
| `RequestsHold` | `RequestsSafe` | `RequestsInv`: for each way through the chain (down, up, panic) and each place on it, what has been answered, logged, translated and authenticated so far |
| `StartupHolds` | `StartupSafe` | `StartupInv`: what is open is what the plan has opened up to here; while closing, what is open is what is still to be closed and what would not be; the configuration of a process that began after the last write is the merged one of its environment, secret included; two such can differ only where `Overrides` of their environments do and the merge does not reach |
| `BalancersHold` | `BalancersFair` | for the round robin `RoundsDealt`: the picks since the last change are `m` whole rounds and one more for an arc of the list, which ends where the counter stands. For the weights nothing inductive over steps, but induction over the list: `WeightUpTo` exists and adds up (`WeightsOf`), it grows (`WeightsGrow`), so the draws of an instance are an interval as long as its weight (`DrawsOfOne`, `SharesOf`) |
| `BackendRunsItsParts`, `BackendTyped`, `BackendKeepsItsPromises` | `BackendTypeOK` and the ten properties of run `backend` | the theorems about the parts |

Induction over data is done by hand in `BackendProofs`: the library's induction
theorems take a formula as a parameter, which the provers do not instantiate, but
that every non-empty set of naturals has a least element (`LeastNumber`, from
`WFMin` and `NatLessThanWellFounded`) is a fact about sets, and so is its
consequence `UpFromZero`: a set that has 0 and every successor is `Nat`. What is to
be shown of every number becomes such a set.

Assumptions: those named in the modules, i.e. keys are integers (their order
stands for the order of strings), the fault and request sets are subsets of the
ones listed, `None` is none of the values it stands for, `maxLoginFailCount` is
at least 2, `MaxUnread` is positive, bounds and limits are natural numbers, page
sizes are positive, weights are integers, the requests on an account's login and
on captchas and the tours are finite sets, configured tours are tours.
`BalancersAssumption` also says that `2^W` is a natural number above 1, which
follows from `W`, but the provers know nothing of powers. TLC evaluates all of
them in the runs. Leases of *live* holders may end only for `Lapsing` and
`"lapse"`; what is proved of exclusion under a lapse is said in
`ScheduledExclusive`.

Model-checked only: the liveness properties (`EveryCallReturns`,
`OrphansReclaimed`, `EveryRunEnds`, `StopReturns`, `ShutdownCompletes`,
`CacheFollows`, `GoneLeaveCaches`), which are out of the provers' reach, as
`ENABLED` is, and that the mutants break what they should.

## 5. Where the code and its documentation disagree

Each with a run that TLC must end with a counterexample:

- **`node_stays`**: `Registry.Register` starts `keepAlive` under the context of
  `OnReady`, which `invokeOnReady` cancels when the hooks have returned. The lease
  is never renewed after that, and a healthy process leaves the directory one TTL
  (10 s in `configs/default.yaml`) after it started.
- **`cron_copies`**: of a job only one copy runs across instances, says the
  architecture diagram; manual runs take no lock.
- **`auth_exchange`**: a refresh token is void once used, says the README; two
  overlapping refreshes both exchange it.

- **`accounts_active`**: verifying the email activates the account, says the API
  documentation of `VerifyEmail`; `Register` sets `Enabled: false`, for which GORM
  writes the column's default, true. Accounts are enabled from birth, and a resend
  is refused.
- **`config_layers`**: the remote configuration is merged into the whole one, says
  the README; the `log` and `etcd` sections are handed out from a snapshot taken
  before the merge.

Met while modelling, and left as notes or as conditions of a property: a forced
disable does not cancel manual runs; an unforced trigger does not see them; a
disable reaches only the instance that serves it, and only a restart tells the
others; concurrent enable and disable requests leave row and scheduler apart; the
port closes before `Deregister`; a change between discovery's first read and its
watch stays unknown until the next change; a watch that fails is not opened again;
a refresh that overlaps a logout survives it; of two overlapping tour updates one
is lost; a resend that overlaps a verification may mail a code that the
verification then deletes; a soft-deleted row of `sys_role_permission` counts
like a live one; a locale directory that is missing goes unnoticed, and the server
runs without messages (`LoadMessages`); Redis's hook logs answers of nil at level `info` even where it is
configured for errors only.

## 6. Not modelled

- **Captcha images**: drawing, random placement and choice of images are
  computations on pixels; whether a guess is near is a Boolean in `Captcha`.
- **Mail**: templates and SMTP; `Accounts` has what a send can come to.
- **Logging and responses**: layout, rotation, wording and translation;
  `Requests` and `CallLogs` have who writes a line or an answer, and when.
- **Command line**: flags and output; `Startup` has what commands open and close.
- **Infrastructure clients**: pools, time-outs and retries are the drivers'.
- **Generated code**: the query builder beyond the statements the services use,
  and the API documents.
- **Balancer at random** (`RandomBalancer`): one draw, no state.
- **Graceful restart**: the second process it starts is a process like any other in
  `ServerNode`; handing over the port is the library's.

Hazards that no property covers, because the code has no behaviour there that
could be promised:

- `internal/cronjob/manager.go:68`: instances read the enabled column only in
  `Start`, and nothing tells them of another instance's disable.
- `internal/service/cron_job.go:67`: a process that dies in an execution leaves its
  row running for ever; no code reads or repairs such rows.
- `internal/server/server.go:77`: the port closes before `Deregister` on every
  shutdown; `DiscoverableListens` is therefore about processes that serve.
- `pkg/etcd/discovery.go:106`: a watch that answers an error is given up, and no
  comment or test promises another; `CacheFollows` and `GoneLeaveCaches` end there.

Left for further work: the lock, the cron manager and the directory composed
with `Startup`'s closing order.
