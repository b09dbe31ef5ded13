# Formal model of the coupon book service

TLA+ modules, TLC configurations and TLAPS proofs for the API in `src/`: an
Express service over MongoDB, Redis and RabbitMQ that creates coupon books,
generates their codes, assigns coupons to users, locks them and redeems them.

Every module opens with a comment that says which code it models;
`PROJECT.json` gives the source lines of each definition.

    tlc -workers 2 -config redeem_race.cfg MCCouponService.tla
    tlapm CouponSafetyProofs.tla

## 1. Inventory of the system

| Component | State | Operations | Interacts with |
|---|---|---|---|
| Coupon service (`components/coupon/coupon.service.ts`) | `Coupon`, `UserCoupon`, `Transaction` documents | assign a random coupon, assign a given one, lock, redeem, list | MongoDB sessions, Redis |
| Redis client (`lib/redis.ts`) | keys `coupon:lock:<code>` with owner and expiry | `set` (SET NX, then EXPIRE), `get`, `del` | coupon service |
| Coupon books (`components/coupon-book`) | `CouponBook` documents, new `Coupon` documents, `totalCodes` | create, generate codes (in the request, or through the queue beyond `maxSyncGenerator`), upload codes | MongoDB sessions, RabbitMQ |
| RabbitMQ service (`lib/rabbitMQ.ts`) | connection, channel, reconnect timer, `isConnecting`, consumers | initialize, publish, consume, reconnect on close, disconnect | broker, books, worker |
| Code generation worker (`workers/rabbitMQ`) | the delivery it is working on | generate the codes of a job in batches, acknowledge or requeue | queue, MongoDB |
| Users and login (`components/user`, `components/auth`) | `User` documents: password and its history, failed check count, lock, tokens | create, login, refresh, verify, reset a password | MongoDB, JWT |
| Access control (`auth/middlewares`, `interfaces/permissions.ts`, seeders) | none on the server: what a login signed into a JWT, until it expires | sign, authenticate, authorize, own resources only | login, every route |
| API and worker lifecycle (`lib/index.ts`, `workers/api`) | `isRunning`, connections | start, stop, restart of a worker by throng | all of the above |
| Code patterns (`utils/codeGenerator.ts`) | none | a random code of a pattern | books, worker |
| HTTP plumbing (`lib/server.ts`, `middlewares`) | none of its own | request ids, logging, error statuses | Express |

What makes it hard. Node interleaves requests at every `await`, and throng runs
several worker processes over the same MongoDB and Redis; there is no in-process
lock anywhere. The assignments and the redemption are MongoDB transactions
(snapshot reads, write conflicts, atomic commit, no retry); the lock operation is
not, and it mixes Redis commands and plain MongoDB writes with the transactions
of the others. Redis errors are swallowed, one Redis operation is two commands,
keys are deleted without a look at their owner, a commit may be applied although
its reply is lost, and a process may die between any two calls.
`PROJECT.json` lists each hazard at its line with the properties that watch it.

What makes each component correct:

* coupons: one owner per coupon; limits per user and per code; counters,
  redemptions and audit trail agree; a lock is good for one redemption; requests
  end; keys expire; an answer tells what happened;
* books and worker: `totalCodes` is the number of coupons; a request generates
  all its codes or none; an accepted job is done once;
* RabbitMQ service: a lost connection comes back, with its consumer; a worker has
  one connection and one consumer; while nothing breaks no message is lost; a
  delivery is acknowledged once, on its own channel;
* users: who goes on guessing locks the account, and nothing undoes the lock; no
  password of the history comes back; a reset code changes one password;
* access control: whoever gets to a handler has logged in not long ago, on an account
  in order, and the route is of their role; a JWT that lives opens those routes; a
  locked account has nobody in the handlers in the end.

## 2. The modules

| Module | Models |
|---|---|
| `CouponRules` | coupon books, coupon documents, and the checks the handlers make on them |
| `RedisLock` | the Redis keys, with each client operation one command at a time |
| `MongoStore` | the collections and the transactions over them |
| `CouponService` | the four operations: one process per request, one action per awaited call; crashes, failing calls, time |
| `CouponLedger` | the abstract specification: what users are promised |
| `CouponProperties` | the properties, the refinement mapping and the inductive invariant |
| `CouponServiceProofs`, `CouponSafetyProofs`, `CouponLedgerProofs` | the theorems: types; the inductive invariant and what follows from it; the refinement, the answers and the limit per user |
| `MCCouponService` | the instances TLC checks |
| `CodeStore` | the collections code generation writes, and its transactions |
| `JobQueue` | the queue of code generation jobs: deliveries, acknowledgements, lost channels |
| `CodeSupply` | generating and uploading codes, in requests and in the worker: one process per request or delivery |
| `CodeSupplyProperties` | the properties of code generation |
| `CodeSupplyProofs`, `CodeQueueProofs` | the theorems: codes and counters; jobs |
| `MCCodeSupply` | the instances TLC checks |
| `RabbitConnection` | the `RabbitMQService` of one process: one task per call in progress, one action per awaited call |
| `ServiceLifecycle` | the process around it: start and stop of the API, start of a worker, requests that publish |
| `LifecycleProperties`, `LifecycleProofs` | what a process keeps of its connection; the theorems |
| `MCServiceLifecycle` | the instance TLC checks |
| `UserAccount` | accounts: creation, login, refresh tokens, resets, verification |
| `AccountLedger` | the abstract specification of the accounts users create |
| `AccountProperties` | the refinement mapping and the properties |
| `AccountProofs` | the theorems |
| `MCAccounts` | the instance TLC checks |
| `AccessControl` | over `UserAccount`: the JWTs that logins sign, and requests with them through the middlewares |
| `AccessProperties`, `AccessProofs` | who gets to the handlers; the theorems |
| `MCAccess` | the instance TLC checks |

The coupon service and code generation meet in the `Coupon` documents: `CodeSupply` creates them, and a
coupon of `CouponService` exists from the start. No operation of one
changes a field that the other reads (`CouponService` never reads `totalCodes`,
`CodeSupply` never changes a coupon that exists), so they are checked apart.

### State of the coupon service

| TLA+ | Code |
|---|---|
| `coupons[c]` | the `Coupon` document with code `c`: `isAssigned`, `isRedeemed`, `redemptionCount`, `lockedUntil` |
| `userCoupons` | the `UserCoupon` documents, as pairs of code and user |
| `redemptions[<<c, u>>]` | the `redemptions` array of that `UserCoupon`, as the ids of its audit records |
| `transactions` | the `Transaction` documents; the id of a document is the request that created it |
| `lock[c]` | the Redis key of `c`: owner and expiry; owner `NoUser` when there is no key, expiry `NoDate` when it has none |
| `snap`, `stale`, `intent` | per request: the snapshot its transaction reads, the coupons written since, the coupon it has written and not committed |
| `pc`, `user`, `target`, `book`, `until`, `reply` | per request: the call it is about to make, its locals, the status it answers |
| `now` | the clock |
| `locksTaken` | a history variable: how often `lockedUntil` was set; nothing reads it but a property |

### Actions of the coupon service

Each operation is split at its awaited calls. Two simplifications need a reason:

* The reads of a transaction all come from one snapshot, and the documents of
  books never change (nothing in the code updates any field of a book but
  `totalCodes`, which these operations do not read). So these reads and the checks between them are
  one step, taken when the request makes its next call that others can see.
* The writes of a transaction are invisible until the commit, and they touch one
  coupon and documents that belong to it. So the update of the coupon, the write
  that can conflict, stands for them all, and the commit publishes coupon,
  `UserCoupon` and audit record in one step.

`assignRandomCouponToUser` is `BeginAssignRandom`, `AssignRandom`, `CommitAssign`;
`assignSpecificCouponToUser` is `BeginAssignSpecific`, `AssignSpecific`,
`CommitAssign`; `lockCouponForRedemption` is `LockSet`, `LockExpire`,
`LockValidate`, then `LockUndo` or `LockUpdate` and `LockLog`, with `LockCatch`
for the catch block; `redeemCoupon` is `BeginRedeem`, `Redeem` (checks and Redis
`get`), `RedeemWrite`, `RedeemUnlock`, `CommitRedeem`. `Abort` is the catch of a
transaction.

The random choice among the available coupons is a choice of any of them. Ids
are well formed: what an id that MongoDB cannot cast does (an error before
anything is written) is not modelled; an unknown code or book is (`NoCode`,
`NoBook`). A body may name any user, whoever sends it, as in the controllers.

### Failures of the coupon service

`Faults` switches them on: `"mongo"` - a call of a transaction fails and is
aborted (`TransactionFails`), a call outside one fails before or after it took
effect, the reply of a commit is lost; `"redis"` - a command fails before or after
it took effect, and the client swallows the error; `"crash"` - a worker process
dies with any set of the requests in progress (`Crash`), its transactions stay
open until MongoDB aborts them (`Reap`), its keys stay.

### What is assumed of MongoDB and Redis

`MongoStore` and `RedisLock` contain what is not in `src/` (marked external in
the map): snapshot isolation; a write of a document that changed since the
snapshot, or that another transaction is writing, fails at once with a write
conflict; a write outside a transaction waits instead; a commit is atomic; Redis
drops a key when its time has come, and processes and servers read one clock.

### Code generation

| TLA+ | Code |
|---|---|
| `couponBooks` | the coupon books that exist; which of them are closed is the constant `Closed` |
| `bookOf[c]` | the coupon with code `c`: its `couponBookId`, `NoBook` if there is no such coupon |
| `totalCodes[b]` | `totalCodes` of the book, in units |
| `inserts`, `counted`, `reading`, `changed` | per session: the codes inserted and the book counted in but not committed, whether the snapshot is taken, what others changed since |
| `ready`, `up`, `unacked`, `tag` | the queue; per worker process: whether it has a channel, the delivery outstanding on it and its number |
| `pc`, `book`, `quantity`, `codes`, `reply`, `job`, `handlerTag` | per request or handler: its next call and its locals |
| `losses`, `times`, `maker` | history: channels lost, commits per request, the request each coupon was made for; only the bounds of `Connect`, `LoseConnection` and `Crash` read them |

`CouponBookService.create` is `Create`; `generateCouponsForBook` is `BeginGenerate`, then `Publish`, or `Insert`, `Count`,
`CommitCodes`; `uploadCouponsForBook` is `BeginUpload` and the same three. The
checks before the transaction read the book once and have no effect, so they
belong to the first step. `processCodeGeneration` in the consumer of
`RabbitMQService` is `Deliver`, `WorkBegin`, `WorkInsert` once per batch,
`WorkCount`, `WorkCommit`, and `WorkAck` or `WorkNack`; `WorkFails` is its catch.

A pattern is the set of codes it can make (`Pool`). An insertion takes any codes
of the pool that are free, and may fail whenever the codes drawn could collide:
with a coupon, with the codes another transaction has inserted, or with one
another. A quantity is in units, `Unit` to a code, because `GenerateCodesDTO` accepts
fractions; the runs have `Unit` 1, for with `Unit` 2 `TotalCodesAgree` fails (see below).

The catch blocks of the two requests await `abortTransaction`, which throws if
no transaction was started: `Refuse`. A handler acknowledges on the channel its process has
at that moment, with the number of its own delivery: `Ack` and `Nack` compare
numbers as the broker does, and an unexpected number closes the connection. While
a process has no channel, `this.channel?.ack` does nothing.

`Faults`: `"mongo"` (calls fail, the reply of a commit is lost), `"publish"`
(`publishMessage` has no channel and sends nothing, or throws), `"connection"` (a channel is
lost while handlers run on), `"crash"` (a worker process dies with its handlers;
MongoDB aborts their transactions in `Reap`). Assumed of RabbitMQ: the queue is
durable and in order, a delivery not acknowledged returns to its head when its
channel closes, prefetch 1 allows one outstanding delivery per channel.

### The connection to RabbitMQ and the processes around it

| TLA+ | Code |
|---|---|
| `connection`, `channel`, `isConnecting`, `reconnectTimeout`, `consumers` | the fields of `RabbitMQService`; a channel is named by its connection, a timer is running or not, the map has the one consumer or not |
| `open`, `closing`, `registered` | what the broker has of the process: its connections, those it is closing, the consumers on the channel of each |
| `pc[t]`, `on[t]` | the call task `t` awaits and the connection it was made on; a task is the start of the process (`Main`), `API.stop` (`Stopper`), a timer that went off, or a request that publishes |
| `role`, `stage`, `isRunning`, `listening` | API or worker; how far its start has come; the fields of `API` and whether the server listens |
| `failures` | history, bounded by `MaxFailures` |

`initialize` is `BeginConnect`, `Connected`, `ChannelOpened`, `QueueAsserted`,
`Prefetched`, and `Finish` or `Throw` (its catch, which schedules the timer); the
last two return to whoever called it, in `ServiceLifecycle`, because what the
caller does next happens before anything else can. `HandleClose` is the `close`
handler, which resets the fields whichever connection has closed; `Lose` has both
handlers, in the two orders they can matter in. `Timer` is the callback
of `setTimeout`. `publishMessage` is `Publish` and, when it had to initialize,
`Send` in `Finish`; `consumeMessages` is `Register`, `Prefetched`, `Registered`;
`disconnect` is `Disconnect`, `ChannelClosed`, `ConnectionClosed`. `API.start` and
the start of a worker are `Start`, `DatabaseReturns`, `Finish`, `Listens`;
`API.stop` is `Stop`. `Database.connect` returns also when it could not connect.

Assumed: a call on a connection that goes is rejected before a timer of seconds
is due (`Settled`); a connection that was told to close closes.

### Accounts

| TLA+ | Code |
|---|---|
| `accounts[u]` | the `User` document: `password`, `previousPasswords`, `__v` as `version`, `failedPasswordCheckCount` as `count`, `isLocked`, `verified`, whether the password is older than `passwordTtl`, whether there is a refresh token, the two codes |
| `pc`, `user`, `doc`, `input` | per session: the save it is about to make, for whom, the fields it read before its await and still uses, the password of its request |
| `wrong` | history: wrong passwords answered, counted up to the lock |
| `calls` | counts codes generated and passwords that age, up to `MaxCalls` |

A session is a call between its `findOne` and its `save`. `save` sets the fields
that were modified and no others; it compares `__v` only when the array
`previousPasswords` was set, and not at all in a document without `__v`, which is
what the migrations insert (`Seeded`, with `FirstPassword`). Hashes are compared,
so a password is the model value itself. `login` is `BeginLogin`, `CheckPassword`
(with the counting, the lock and `isLocked` of the document in memory) and
`IssueToken`; `verifyRefreshToken` is `BeginRefresh`, `Spend`;
`applyPasswordResetWithToken` is `BeginReset`, `SaveReset` with `preValidate`
(`Allowed`, `Keep`); `verifyWithToken` is `BeginVerify`, `SaveVerify`;
`generatePasswordResetToken` and `generateVerificationToken` are `GenerateCode`.
No route calls the methods after login yet; they are modelled as the API a
controller would use.

### Access control

| TLA+ | Code |
|---|---|
| `signed[s]` | the JWT that login `s` has signed and not answered yet, as the ticks it still lives |
| `held` | the JWTs that logins have answered: `sub`, `role`, `permissions`, key, issuer, audience, and the ticks it still lives |
| `response[c]` | what became of the request of client `c`: 401, 403, or the handler it got to, with the user of its JWT and what it asked for |
| `fresh[u]` | history: the ticks until a JWT signed by the latest good login of `u` expires; only the properties read it |

`AccessControl` extends `UserAccount` and gives the end of a login its JWT:
`createToken` signs in the step in which `checkPassword` has answered (`Sign`),
awaits the save of the refresh token, and then the login answers (`AnswerLogin`)
or fails (`FailLogin`). `Tick` ages every JWT, those not yet answered too, since
`exp` is in the JWT when it is signed. A request has no usable authorization
header (`AskWithout`) or a JWT (`Ask`), one that a login has answered or one of
another service (`OtherJwts`: with a key, an issuer or an audience that is not
ours, or without a role or permissions). It goes through `authentication` (`verify` with the
literal key, issuer, audiences and expiry, then the presence of role and permissions;
401), then through the chain of its route (`authorize` with `RequiredPermission`,
and `ownerShip` for the coupons of a user; 403), and gets to the handler. The
middlewares read nothing but the JWT, in one step, as they do in one turn of
Node. What a JWT says of its algorithm goes with its key: both ends
take the algorithm from one entry of the configuration.

## 3. What TLC checks

`CHECK_DEADLOCK FALSE` is in the cfgs of `CouponService`, `CodeSupply` and `ServiceLifecycle`, because
the requests of a run all end, the clock is bounded, and a process that was stopped does
nothing more.

### The coupon service (module `MCCouponService`)

| Run | Instance | Checks |
|---|---|---|
| `assign_race` | 2 random assignments, 1 specific; 2 users, 3 coupons, 2 books (one opens at time 2), MongoDB faults | `TypeOK`, `OneOwner`, `LimitExceededOnlyByOverlap`, `ImplementsLedger` |
| `redeem_race` | 2 locks, 2 redemptions, of a known or an unknown code; 1 user, 1 coupon; key, `lockedUntil` and book expire during the run; fair | `RedemptionLimit`, `RedemptionsAgree`, `AnswersTellTheTruth`, `EveryRequestEnds`, `LocksExpire` |
| `redeem_faults` | 1 lock, 2 redemptions of a coupon that allows 2, of a known or an unknown code; its owner and another user; all faults | `IInv`, `OneRedemptionPerLock`, `ImplementsLedger` |

* `OneOwner`: a coupon is assigned exactly when one user has it, and the audit
  trail has that one assignment.
* `LimitExceededOnlyByOverlap`: a user exceeds `maxCodesPerUser` only by a
  transaction that did not see another one of the same user (see below: the
  limit itself does not hold).
* `RedemptionsAgree`: counter, flag, `redemptions` array and audit trail agree.
* `RedemptionLimit`: no code is redeemed more often than its book allows. The
  second check of the limits in `redeemCoupon` is needed: without it TLC finds a lock that
  passes its own check while the redemption it does not see commits.
* `OneRedemptionPerLock`: every redemption uses up a lock of its own. In `redeem_faults`
  the book would allow the second redemption, so nothing but the lock stops it.
* `AnswersTellTheTruth`: as long as MongoDB does not fail, a request answers 201
  exactly when it did what it was asked to. With a lost commit reply it cannot.
* `ImplementsLedger`: the whole service, seen through the owner of each coupon,
  whether it is open for redemption and how often it was redeemed, is `CouponLedger`.
* `EveryRequestEnds`, `LocksExpire`: no lock update waits for ever behind a
  transaction, and no key outlives the requests.

**Bounds.** `MaxTime` bounds the clock while requests run (afterwards it runs on for one lock
duration); the lock lasts 1 or 2 units, so that a key and a `lockedUntil` may
each expire before, between and after every pair of steps. Two or three requests
of a kind are what the races need: two that collide and one that comes after, and
the third lock matters in `lock_exclusion`. The limit of redemptions is 1 where it is checked; for any
other limit there is the proof. One coupon suffices for locks and
redemptions because they touch the documents of one code only; the assignments
choose among several and count over a book, so they have three.

**Fairness.** `FairSpec` has weak fairness of the steps of each request (Node
resumes a request whose call has returned), of `Reap` (MongoDB aborts
abandoned transactions) and of `Tick` (time passes). `redeem_race` has no faults: with a
fault the failing call would end the wait, and the run would not show that the others do.

### Code generation (module `MCCodeSupply`)

| Run | Instance | Checks |
|---|---|---|
| `codes_sync` | a generation (in the request or as a job), an upload, the creation of a book, 2 handlers of 1 worker process; 4 codes; an open book and one that is created in the run and is closed; lost channels and publications | `AnswersTellTheTruth`, `TotalCodesAgree`, `RepeatedOnlyAfterLoss` |
| `codes_faults` | 2 generations (in the request or as jobs of 2 batches), the creation of a book, 2 handlers of 1 process; 3 codes; MongoDB faults, 2 crashes | `TypeOK`, `JobIsKept`, `AllOrNothing`, `TotalCodesAgree` |
| `jobs_done` | 2 jobs, 2 handlers of 1 process that may die; fair | `EveryJobIsDone` |

* `TotalCodesAgree`: for integer quantities, `totalCodes` of a book is the number of its coupons, with any
  overlap of requests and handlers, and when jobs are done twice.
* `AnswersTellTheTruth`: as long as MongoDB does not fail, a request that
  answers 201 has made its codes, once, and one that answers an error has made none.
* `AllOrNothing`: no batch of an aborted transaction stays, every code is in
  the book that was asked for, and that book exists.
* `JobIsKept`: with failing calls and dying processes, an accepted job is in the
  queue or with a process until its codes are made. With lost channels it does not hold (see below).
* `RepeatedOnlyAfterLoss`: a job is done twice only after a channel was lost. How
  often is not bounded by the losses: the handler of a lost channel may return to
  the queue what another one has just done.
* `EveryJobIsDone`: jobs that can succeed are done in the end, although their process may
  die at any step and codes drawn at random may collide.

**Bounds.** Three or four codes let two requests collide and still both
succeed; batches of 1 make a job of two batches; `MaxLosses` bounds losses and
reconnects, and delivery numbers stop at `MaxTag` where a number can outlive its
channel (elsewhere larger numbers look the same). Codes are interchangeable, so
the safety runs use symmetry.

**Fairness.** Weak fairness of requests, handlers, deliveries, aborts and
reconnects. `WorkInsert` has strong fairness: codes are drawn at random, so a
batch that is possible again and again succeeds once. `jobs_done` has no
MongoDB faults, which could fail every attempt.

### Processes and their connection (module `MCServiceLifecycle`)

| Run | Instance | Checks |
|---|---|---|
| `connection` | an API or a worker; 3 connections, 2 timers, 1 publishing request; 2 failures anywhere; fair | `TypeOK`, `NeverStuck`, `OneConsumer`, `Undisturbed`, `Recovers`, `ConsumerKept` |

* `NeverStuck`: whenever a field is null, or `isConnecting` keeps others from
  connecting, a timer runs or an `initialize` is under way, unless the process was stopped.
* `OneConsumer`: a worker has at most one connection and one consumer on it. An API
  may have more connections (see below).
* `Undisturbed`: while nothing breaks, no message is dropped. It rests on
  `start()` awaiting `initialize` before it listens.
* `Recovers`, `ConsumerKept`: once nothing breaks any more, connection and channel are
  back and stay, and in a worker the consumer is on that channel.

**Bounds.** `MaxFailures` 2: one failure while the other is being repaired. Two
timers and a request are enough for three calls of `initialize` at once, each with
its connection; more connections look like these, and the theorems of section 4 are for any number.

**Fairness.** Weak fairness of the start, of every call in progress, of every timer
and of the closing of a connection that was told to close: Node and the broker
answer in the end, with success or failure.

### Accounts (module `MCAccounts`)

| Run | Instance | Checks |
|---|---|---|
| `accounts` | a user who creates the account and an admin a migration inserted; 2 sessions; 3 passwords, 1 code; a lock after 2 wrong passwords, a history of 1 | `TypeOK`, `ImplementsLedger`, `GuessingLocks`, `LockHolds` |

* `ImplementsLedger`: seen through its wrong passwords, its lock, its reset code and its
  history, an account that a user created is an `AccountLedger`: no stale save
  unlocks it, it takes enough wrong passwords to lock it, overlapping resets use a
  code once, and the history loses nothing. The comparison of `__v` is needed: without it TLC
  finds two resets that use one code.
* `GuessingLocks`: parallel guesses are counted once, but who goes on guessing locks
  the account, unless its owner keeps logging in, or keeps resetting the password, both of
  which set the count back to 0. `MaxCalls` allows one reset code in this run.
* `LockHolds`: a locked account gets no more tokens once the logins that found it
  unlocked are over.

`GuessingLocks` and `LockHolds` need no fairness: they say what follows if guesses
or logins go on, not that they do.

**Bounds.** The code locks after six wrong passwords and keeps four; two and one
have the same boundaries, with a count below the limit, at it and above it.
`MaxCount` stops wrong passwords where only the count would grow, and `MaxCalls`
allows one code or one ageing, so two resets race for the same code. Two
sessions are what a race of a stale save takes; the other account matters only
for the unique codes.

### Access (module `MCAccess`)

| Run | Instance | Checks |
|---|---|---|
| `access` | a user and an admin that migrations inserted; 2 sessions, 1 client; JWTs that live one tick; the configuration of `default.json` | `AccessTypeOK`, `JwtsAreAccepted`, `HandlersFollowLogins`, `LockEndsAccess` |

* `HandlersFollowLogins`: when a request gets to a handler, a login of that user has
  passed its checks less than the life of a JWT ago, on an account it found in order,
  and the handler is one the user's role is meant for. Overlapping logins, logins that
  answer late, with a JWT that is old or expired by then, and the JWTs of other services change nothing of that.
* `JwtsAreAccepted`: until it expires, a JWT that a login has answered opens all that the role of
  its user is meant for: what is signed is what is asked for.
* `LockEndsAccess`: nothing in the middlewares looks at the account, and a JWT outlives
  the lock of its account. But of the logins that found it unlocked each signs one JWT at
  most, no other login signs any, and what was signed expires, answered or not.

**Bounds.** With `ExpiresIn` 1 a JWT lives or has expired, which is all `verify`
looks at; it may expire before its login answers, while it is held, and between a
request and the next. Two sessions let one login lock the account while another has its JWT
signed; the account locks after one wrong password, for this run is not about counts. Nobody
creates an account here, no codes are generated (`Codes` is empty) and no password ages: `accounts` has those.
Requests do not meet each other, since none writes what another reads, so one client is enough.

**Fairness.** Weak fairness of `Tick`: time passes. Logins may hang for ever, and their
JWTs expire all the same.

### Runs that show a disagreement with what the repository says

| Run | Statement | What the code does |
|---|---|---|
| `user_limit` | `README.md:240`: "Ensure user hasn't exceeded max coupons" | two overlapping assignments of one user both pass the check (write skew) |
| `lock_exclusion` | `README.md:49`: "only one process can assign or modify a coupon at a time" | a request that does not get the key deletes it in its catch |
| `stale_ack` | `coupon-book.service.ts:71`: "code generation started in the background" | after a reconnect a handler acknowledges another job |

The first two do not break the safety properties of the coupon service: those rest on the MongoDB
transactions and on `lockedUntil`, not on the Redis key, and this is what the
proof makes precise.

### Behaviour of the model that no run is spent on

The models contain these as the code has them; most show in a run as soon as a constant is changed:

* with `"crash"` in `redeem_race`, `LocksExpire` fails: `set` is SET NX and then EXPIRE,
  and a process that dies in between leaves a key for good (`README.md:47` promises
  an expiry "to avoid deadlocks");
* with `Unit = 2`, quantities `{2, 3}` and `MaxSync = 2` in `codes_sync`, `TotalCodesAgree`
  fails: a quantity of 1.5 makes 2 codes in a request and counts 1.5;
* with `"publish"` in `codes_faults`, `JobIsKept` fails: `publishMessage` sends
  nothing while another call is connecting, and the request answers 201;
* with fewer codes than `jobs_done` asks for, `EveryJobIsDone` fails: the job is requeued at
  the head for ever, before all others;
* a user in `NumericIds` is never the owner that `get` returns, which is a number, and
  his redemption is refused;
* `Refuse` answers 500 where the code throws 403 or 404, because the catch aborts a
  transaction that was not started;
* an assignment never looks at the Redis key that `README.md:45` says it checks;
* an API whose timer goes off while a request initializes opens two connections and
  keeps the first one open, unnamed, for good;
* `disconnect` closes the connection, whose handler schedules a reconnect: a stopped
  API connects again if its process still lives;
* a worker whose consumer failed to register disconnects its database, and its timer
  brings the consumer back all the same;
* an API whose database did not answer listens nevertheless;
* with another `Secret` than `"secret"`, or a `RoleAudience` that shares nothing with
  `Audience`, `JwtsAreAccepted` fails: the key is of the configuration when a JWT is signed
  and a literal when it is verified, and its audience is of the role, so every login succeeds and every
  request is refused;
* a JWT is not compared with the account again: it goes on working after a lock, until it expires
  (90 days in `default.json`);
* the two assignment routes ask for each other's permission, which no role has without the other;
* an account a migration inserted has no `__v`, and two resets may use one code;
* a login that found the account unlocked gets its token while another one locks it, and a
  reset that found it unlocked changes the password of a locked account;
* two requests with one refresh token both get through, and the later one removes
  the token of a login in between; codes never expire, because
  the `findOne` does not select the date it would compare.

## 4. What is proved

### The coupon service

For every set of users, coupons, books and requests, every lock duration and
every set of faults:

| Theorem | Statement |
|---|---|
| `TypeCorrect` | `Spec => []TypeOK` |
| `Invariance` | `Spec => []IInv` |
| `CouponHasOneOwner` | `Spec => []OneOwner` |
| `NoRedemptionIsLost` | `Spec => []RedemptionsAgree` |
| `LimitHolds` | `Spec => []RedemptionLimit` |
| `LockIsUsedOnce` | `Spec => []OneRedemptionPerLock` |
| `ServiceImplementsLedger` | `Spec => ImplementsLedger` |
| `LimitNeedsOverlap` | `Spec => LimitExceededOnlyByOverlap` |
| `AnswersAreTrue` | `Spec => []AnswersTellTheTruth`, if `"mongo"` is not among the faults |
| `CreatedIsRecorded` | `Spec => []CreatedMeansRecorded`: a 201 has its audit record, for every set of faults |

**The argument.** None of the properties is inductive alone: whether a commit
preserves them depends on what the request read long before. `IInv` adds what
connects the two: `Control` (what a request knows at each `pc`),
`SnapshotsCurrent` (a coupon that is not stale for a request looks the same in
its snapshot and now, with its `UserCoupon`s and redemptions), `OneWriter` (at most one uncommitted
writer per coupon, and its snapshot is not stale) and `ChecksPassed` (the checks a
request has passed hold in its snapshot). At a commit, `OneWriter` and
`SnapshotsCurrent` turn `ChecksPassed` into a fact about the current documents,
and each property follows. The Redis keys do not occur in `IInv`: they are not
needed for safety.

`CouponSafetyProofs` first classifies every step by its effect on the documents
(`NextEffect`: nothing, a snapshot opens or ends, a coupon is written, a lock is
set, an audit record is added, one of the two commits), and then proves each conjunct per effect.
`CouponLedgerProofs` maps the three effects that change documents to the three
actions of the ledger.

Answers and the limit per user do not need `IInv`. What a request answers and what it
records happen in one step, its last, unless a call of MongoDB fails (`Answers`:
a step refuses or records), so the records are those of the requests that answered 201
(`Silent`). A lost reply of a commit, or of the update or the record of a lock, makes
an error untrue and never a 201 (`Honest`). `LimitNeedsOverlap` rests on `Quota`: whoever
is about to commit an assignment was below the limit in its snapshot, so a commit
that exceeds the limit is of a snapshot that differs from what the user holds now.

**Assumptions.** `RulesAssumption`, `RedisAssumption`, `StoreAssumption`,
`ServiceAssumption`: the constants have their types, the special values are
different from the ordinary ones, coupons and users are finite, and coupons owned at the start have
one owner. TLC evaluates them in every run.

### Code generation

For every set of requests, worker processes, handlers, codes and books, every pattern,
batch size and quantities, every set of faults and any number of deaths and lost channels
(`CodeSupplyProofs`, `CodeQueueProofs`):

| Theorem | Statement |
|---|---|
| `TypesHold` | `Spec => []TypeOK` |
| `WholeRequests` | `Spec => []AllOrNothing` |
| `CountersAgree` | `Spec => []TotalCodesAgree`, if every quantity is a whole number of codes |
| `AnswersAreTrue` | `Spec => []AnswersTellTheTruth`, if `"mongo"` is not among the faults |
| `CreatedIsMade` | `Spec => []CreatedMeansMade`: whatever fails, a request that is not a job makes its codes at most once, and a 201 means it did |
| `NoJobIsLost` | `Spec => []JobIsKept`, without `"connection"` and `"publish"` among the faults |
| `OnlyLossesRepeat` | `Spec => []RepeatedOnlyAfterLoss`, if `"mongo"` is not among the faults |

Each hypothesis is needed, for the property fails without it: `CountersAgree` for
fractions, `NoJobIsLost` for a job that another handler acknowledges (`stale_ack`) or that
was never sent, the other two for a commit whose reply is lost. In a run of the service `"mongo"`,
`"connection"` and `"publish"` do happen; the theorems say that nothing else breaks these
properties, in particular no death of a process.

**The argument.** `AllOrNothing` speaks of codes that are there; what a commit will add
depends on batches long before. The inductive invariant `IInv` says: what a request has checked by the time of each call
(`Control`); whatever is in the queue, delivered or in a handler is an accepted job,
of a book that exists (`JobsKnown`); codes inserted but not committed
are free for all others, belong to one transaction, and are complete when they are counted
(`Transactions`); every coupon belongs to a request that is over, and every commit made as many as
were asked for (`History`). Every step has one of the effects of a transaction
(`Begins`, `Inserts`, `Proceeds`, `Commits`, `Aborts`) or of the queue (`Deliver`, `Releases`,
a channel lost or connected, a death); `NextEffect` proves it, and each part is
preserved by each effect. `CountersAgree` adds that a request counts what it inserted
(`Exact`, which is where a fraction fails); it needs nothing about the queue, since a job that is done twice counts
twice. `AnswersAreTrue` adds `Truth`: the codes of a request that is over change only by a handler, and
handlers have jobs only.

For jobs, `DeliveriesMatch` says that a living handler has its own delivery outstanding, and is alone
with its process: so what it acknowledges is its own job, which is done
(`Acknowledged`), and what it returns is its own job. A lost channel breaks that, and
nothing else does. `OneCopy` and `Once` say that until a channel is lost a job has one copy,
whose codes are not made unless its handler is about to acknowledge it.

### Processes and their connection

For every number of connections, timers, publishing requests and failures
(`LifecycleProofs`):

| Theorem | Statement |
|---|---|
| `LifecycleTypeCorrect` | `Spec => []TypeOK` |
| `ServiceIsNeverStuck` | `Spec => []NeverStuck` |
| `WorkerHasOneConsumer` | `Spec => []OneConsumer` |
| `UndisturbedMessagesArrive` | `Spec => []Undisturbed` |

**The argument.** `isConnecting` alone excludes little, since a timer resets it. What
excludes a second `initialize` in a worker, and in an API before requests come in, is that a
timer runs only while no connection is open and no task is in the middle of
connecting (`OneTask`): a failure ends the task (`Settled`) before the timer is
due, and the connection it opened has gone with it. From that, `OneRegistration`
says that no consumer is registered before the task that registers it ends.
`NeverStuck` needs much less (`Recovering`: for each null field a timer or a task that
will set it), and holds where an API has several `initialize` at once.
`Intact` follows an API from its first `connect` to the first failure. One lemma per
action preserves each part. The assumption is `ConnectionAssumption`: the tasks are different.

### Accounts

For every set of users, passwords, codes and sessions, every `LockAfter` and length
of the history (`AccountProofs`):

| Theorem | Statement |
|---|---|
| `TypesHold` | `Spec => []TypeOK` |
| `LedgerIsKept` | `Spec => ImplementsLedger` |

**The argument.** A session saves what it computed from a document it read before an
await, so the invariant says what it still knows (`Knows`). Of a guess:
the count it read is not ahead of the wrong passwords answered so far (`Answered`), so a
save that locks the account has enough of them behind it, whatever counts were lost. Of
a reset: if the version it read is still the one of the account, then so is the history, and
the code is still out (`Current`); the comparison of `__v` in the save makes that case the only one,
which is why the refinement is stated for accounts that users created, whose documents have a `__v`. Every step
is one of four effects on the accounts (`Opened`, `Quiet`, `Guessed`, `Changed`); each lets
accounts only grow (`Grows`: versions rise, and with an unchanged version the history stays
and so does a code), which keeps what all other sessions know, and each is a step of the ledger
or none.

### Access

For every set of users, admins, sessions and clients, every key, issuer and set of audiences, and every
life of a JWT (`AccessProofs`):

| Theorem | Statement |
|---|---|
| `AccountsUndisturbed` | `AccessSpec => Spec`: all that is proved of the accounts holds here too |
| `AccessTypesHold` | `AccessSpec => []AccessTypeOK` |
| `HandlersAreBehindLogins` | `AccessSpec => HandlersFollowLogins` |
| `JwtsOpenTheirRoutes` | `AccessSpec => []JwtsAreAccepted`, if `Secret` is the literal of `authenticationMiddleware` and each role has an audience of the configuration |

**The argument.** A request is judged by a JWT that may have been signed long ago, in a login that
answered later, so the invariant `AccessInv` follows the JWT from its signature on: while a
login has one to answer with, it waits for its last save, and the JWT is no younger than
the checks of that user's latest good login (`Backed`), and the same holds of every JWT that is held. A login that has
signed keeps its user while others move (`TokenStays`, which needs the invariant of the accounts), and a
tick ages both sides alike (`TickInv`). At a request, `OthersStop` excludes the JWTs of other
services, one reason for each, and `AuthorizedPermitted` says that the chains of the routes let
through those the roles are meant for and nobody else. The two hypotheses of
`JwtsOpenTheirRoutes` are those the code does not enforce; the property fails without either.

The assumptions are those of the constants (`CodeStoreAssumption`, `QueueAssumption`,
`SupplyAssumption`; `AccountAssumption`, `AccessAssumption`, `RolesAssumption`): types, finite sets of codes, a `None`
that is no document, password, code or role, a `Foreign` that is no key, issuer or audience of ours. TLC evaluates them in the runs.

**Only model-checked.** All liveness, which the prover cannot handle: `EveryRequestEnds`,
`LocksExpire`, `EveryJobIsDone`, `Recovers`, `ConsumerKept`, `GuessingLocks`, `LockHolds`, `LockEndsAccess`.
Every invariant and every refinement of a passing run is proved.

## 5. Plan

In this order:

1. An abstract specification of code generation (a request is accepted, refused, or makes all of its
   codes at once; `totalCodes` moves with them) and the refinement of
   `CodeSupply` to it, from the invariant of `CodeSupplyProofs`.
2. The safety part of `LockHolds`: once an account is locked, only a session that had already
   found it unlocked gets a token, each one at most.
3. That a coupon which exists never changes its book and is never made a second time, as
   an action property of `CodeSupply`.

## 6. What is not modelled

* Reads for display (`getUserCoupons`, `generateCouponsForBook`'s `totalCodes` in
  its answer): nothing depends on them.
* Ids that are not well formed: MongoDB refuses to cast them before anything happens.
* The death of an API process during a generation: a transaction that is not
  committed is aborted, as for a worker.
* `updateLastActivityAt` and the soft deletion of `User`, which nothing calls.
* The disconnects of Redis and MongoDB in `API.stop`, and throng's master, which
  starts a worker process again.
* A `createChannel` or `assertQueue` that fails while its connection stays open.
* The text of a JWT and of its header: a header has a token in it or not, and a token is a
  JWT that a login has answered or one of another service, as `OtherJwts` has them; anything else that
  `jsonwebtoken` cannot decode is a 401 like these.
* Role documents that change or are missing: the migrations insert both and nothing writes them.
* HTTP plumbing, validation messages, Swagger, seeders, migrations and deployment:
  no state that the components share.
