# A TLA+ model of Hoomanise

Hoomanise is one Python process that is an HTTP API (FastAPI) and a background worker
(asyncio) at once, over two stores: PostgreSQL, which keeps users, jobs and usage, and
Redis, which keeps the job queue, the concurrency slots, the state clients stream, the
response cache and the rate counters. There is no transaction across the two, the process
is killed and restarted by its platform, and every Redis or SQL call is an `await` at which
everything else may run. What can go wrong in this program lives between those calls, and
so does this model.

## The system

| Part | State it keeps | Operations | What makes it correct |
|---|---|---|---|
| Humanize request (`routes_v1.py`) | `jobs` row, `usage_records` row, Redis hash and list | cache lookup, limits, INSERT, charge, enqueue, DELETE | an accepted job is charged once and is in the queue; a refused one leaves nothing |
| Worker (`queue.py`) | `hoomanise:queue`, `hoomanise:processing`, tasks in memory | pop, read, mark, humanize, store, settle, publish, fail, recover, stop | no accepted job is lost; it ends, once; what was refunded is not delivered |
| Slots (`queue.py`) | `hoomanise:slots` (sorted set) | acquire, release, reap | at most `JOB_CONCURRENCY` jobs run; a waiting job gets an answer |
| Credits (`credits.py`) | `usage_records`, row lock of the user | charge, settle, refund | the grant is never exceeded; a job is charged once |
| Limits (`ratelimit.py`, `guard`, `_ensure_queue_capacity`) | Redis counters, counts of rows | hit, check | the limits hold under concurrent requests as far as the code means them to |
| API keys, Clerk users (`routes_v1.py`, `auth.py`) | `api_keys`, `users` | create, regenerate, revoke, authenticate | at most one active key; a revoked key is refused |
| Webhooks (`queue.py`, `routes_v1.py`) | `hoomanise:webhooks`, `webhook_endpoints` | queue, drain, register, disable | deliveries do not pile up and keep no job waiting; the endpoint limit |
| Stream, lookup (`routes_v1.py`) | what the client was told | poll, get | states go forward; the stream ends; what is asked afterwards agrees |
| Purge (`queue.py`) | `result_text` of old rows | purge | nobody misses what it takes |
| Migrations (`db.py`) | `schema_migrations`, the schema | migrate | each takes effect once, in order, before the release serves |
| Database pool (`db.py`) | the pool of the process | query, execute, reset | one retry; a reset must not fail the others for ever |
| Humanizer (`engine/`) | none: a function of the text and the job's id | passes, checks, ranking | what is returned passed the checks, or is the repaired original |
| Lifespan, middleware (`main.py`) | ready flags | start, stop, timeout | every start comes to serve |

How they interact: the request writes the job row, calls the credits, writes the Redis hash
and pushes the id. The worker, in the same event loop, pops the id into `processing`, reads
the row, takes a slot, runs the engine in a thread, writes the result, settles the credits,
publishes to the hash, fills the cache that later requests read, and releases everything.
The lifespan starts the worker before the first request and stops it after the last. The
stream and `GET /v1/jobs/{id}` read what these steps wrote.

What is hard: interleavings of requests, tasks and other instances at every call; the
process killed between any two calls, during recovery too; calls that fail, or take effect
and are sent again because their answer was lost (`redis_client.py` retries three times); a
shutdown that cancels tasks in the middle; requests that end early (the 30 s timeout);
entries that expire while their owner runs. `PROJECT.json` lists each at its line under
"hazards".

## The modules

* **`JobPipeline`** – the life of jobs, from `create_humanize_job` to the final LREM. One
  action per Redis or SQL call. Its variables are the columns and keys the code touches:
  `row` is `jobs.status`, `result` the rows with a `result_text`, `usage` the status of the
  usage record, `hash` the `state` field of `hoomanise:job:{id}`, `queue` and `processing`
  the two lists, `leaked` the slot entries without an owner. `submit[j]` is the program
  counter of a request, `tpc[t]` and `tjob[t]` that of one of the `JOB_CONCURRENCY` tasks,
  `worker` and `orphans` that of `Worker.run` and `recover_orphans`. `faults` counts the
  faults that have happened, `unrecorded` the jobs whose task was kept from writing down how
  it ended; neither is a variable of the program.
  The faults are the elements of the constant `Faults` (see `FaultKinds`): process killed,
  process stopped in good order, jobs cancelled by the shutdown, request ended early,
  failing SQL statement, failing Redis command, Redis command sent twice, failing engine.
  Nothing in the code catches a Redis error of `recover_orphans`: `RecoveryFails` leaves the
  worker `"dead"`, while the process goes on serving, until it is stopped or killed. What was
  pushed by then is in both lists, and `doubled` says so (`HalfRecovered`).
  A request is over here when nothing of it runs any more: a statement that goes on in its
  thread after the 504 is still a step of it, and `Abandon` comes after.
  A call that fails *after* it took effect needs no action of its own: it is its step,
  followed by the failure of the next one.
* **`Slots`** – `SlotManager`: the registration in the sorted set, the second look, the
  withdrawal, the reaping of stale entries, deadlines, dying owners, and time. Time is
  relative (the age of each entry, what is left of each deadline), so it needs no bound.
  In `JobPipeline` taking a slot is one step; that this is what the protocol amounts to is
  what `Slots` shows.
* **`Semaphore`** – what the slots promise: a counting semaphore.
* **`Credits`** – `charge` as PostgreSQL runs it (lock, sum, insert or refuse, commit, with
  aborts), and `settle`, `refund` and the deletion of a job, which take no lock.
* **`Ledger`** – what the credits promise: check and charge in one step.
* **`Admission`** – how many jobs get in: `_ensure_queue_capacity` (`CountRows`, `CheckDepth`)
  and the loop of a batch, of which a single text is the shortest (`Insert`, `Charge`,
  `Remove`, `Push`, then the next text), against deletions and the worker. Jobs are counted,
  not named: `queued`, `running`, `stuck` (open rows in no list) by user, `stale` (ids whose
  row was deleted or whose job has ended) and `stopping` (the same, taken by the worker). What
  is in `processing` without a task, because a pop was not answered, a final LREM failed or the
  process was killed, is `parked` (open jobs) or `spent` (other ids): the next `Recover` queues
  it. `worker` says whether recovery is to come, has failed, or is done. `strays` counts the
  commands after which an id is listed or left once more than meant, `cuts` the recoveries that
  ended before their DEL; neither is a variable of the program. What a job goes through is
  `JobPipeline`'s; how a job comes to be stuck is there too, here it is `Lose` and `LeaveRow`.
  A thread that goes on after its request was answered counts as one of the requests at a time.
* **`Limits`** – `check_limits` and `_hit`: INCR of the four counters of a request in turn, an
  EXPIRE after the first INCR of a counter, and what `guard` does when Redis fails in
  between. An INCR whose answer is lost is sent again (`LosesAnswer`, `IncrAgain`), so that who
  made the counter reads 2 and sends no EXPIRE; a request may end between any two commands
  (`Abandon`). Time ticks; a window that ends takes its counters with it, since the number of
  the window is part of their key.
* **`Accounts`** – `users`, `api_keys` and `webhook_endpoints`. The statements of
  `authenticate` (`FindUser`, `AddUser`, `FindKey`, `CheckOwner`) run in threads and
  interleave. The handlers that change keys and webhooks (`Enter` to `Audit`) call the
  database without an `await`: `loop[s]` is the request that keeps the event loop of server
  `s`, and only other servers act meanwhile. `dead` is the set of requests that began with a
  withdrawn key or a disabled user, `shown` that of keys their user was told; neither is a
  variable of the program.
* **`DbPool`** – the global `_pool` of `db.py`, which threads make (`Get`, `Create`, `Return`) and
  reset (`Close`, `Drop`) without a lock, and a statement with its second try. A pool is a
  number; `closed` are those that were closed, `pool[t]` the one thread `t` has in hand. The
  pool itself is external: it hands out connections until it is closed (`Connect`,
  `Refused`), and the database may be away (`up`).
* **`Stream`** – extends `JobPipeline` by a client that streams a job (`OpenStream`, `Poll`) and
  asks for it (`GetHash`, then `GetRow`), and by what the stores forget: `ExpireHash`, and
  `PurgeOldContent`, the retention purge of the worker. Time is not counted; a hash expires,
  and a result is purged, only when nothing works on the job and nobody is asking for it.
* **`JobPromise`** – what the API promises the client of a job, without Redis, tasks or requests: the
  state of each job, that of its credits, and what one client was told and answered. `Stream`
  implements it: a job is `"new"` until its request decides to insert a row, then what the row
  says, and `"gone"` when there will be none (`StateOf`).
* **`Startup`** – `python -m app.migrate && uvicorn`: `migrate`, one action per statement and
  commit, of any number of instances at a time, then the lifespan with its two checks, the
  worker it starts or does not start, shutdown and exit; beside them the platform, which
  restarts what fails up to `MaxRestarts` times, kills, and outages of a store. PostgreSQL is
  external: an INSERT of a key that another transaction has inserted waits for it. The table
  `schema_migrations` itself is taken to exist.
* **`Schema`** – what the migrations promise: a schema that goes through its versions.
* **`Webhooks`** – extends `Startup` by the loop of the worker in each instance: the pop of a
  job, the drain of `hoomanise:webhooks` (`Take`, `Lookup`), the task of the job (`Spawn`), and
  in the tasks the two calls of `_queue_webhook`. An RPUSH or an LPOP whose answer is lost is
  sent again (`QueueAgain`, `TakeAgain`); `resends` counts these. `Lookup` of an enabled endpoint ends the
  drain, since the item has no `url`. The lines after it are never reached.
* **`Semantics`** – `semantic_check` and its helpers, as operators on texts that are sequences of
  sentences of tokens. A counter (`Counted`) is a function from words, and what is left of one
  counter without another a set of words (`Surplus`): the code asks no more of them.
* **`Selection`** – `humanize` in `engine/pipeline.py`: the gate for human texts, the plans,
  what is eligible, the two extra plans, the ranking (`Best`: the head of the sorted list is the
  candidate of the lowest rank, made first among equals), the choice of one that parses, the
  fallback. A candidate is a text, which `semantic_check` compares with the original, and what
  the other checks and the measures say of it; `_run_pass` is any of them. Similarities and
  distances are thousandths and scores tenths, as the code rounds them, so that the ranking
  is exact.
* **`MCSlots`, `MCCredits`, `MCJobPipeline`, `MCStream`, `MCAdmission`, `MCLimits`, `MCAccounts`,
  `MCDbPool`, `MCWebhooks`, `MCSelection`** – the instances TLC checks.
* **`EngineProofs`, `CreditsProofs`, `JobPipelineProofs`, `AdmissionProofs`, `LimitsProofs`,
  `AccountsProofs`, `DbPoolProofs`, `StartupProofs`** – the theorems.

Definitions commented *Variant* are what a plausible mistake in the code would make of the
definition that follows them; `PROJECT.json` names, for each property of each run, the variant
that breaks it. `Next` does not use them.

## What is checked

| Run | Instance | Properties |
|---|---|---|
| `slots` | 3 tasks, 2 slots, TTL 3, wait 2; no holder outlives the TTL | `HoldersWithinLimit`, `SlotsAccountedFor`, `AcquireReturns`, `ImplementsSemaphore` |
| `credits` | 4 charges (2 for one job, 1 for another, 1 without), costs 2, 2, 1, 2, grant 4 | `UsedWithinGrant`, `OneRowPerJob`, `LockReturns`, `ImplementsLedger` |
| `jobs` | 2 jobs with the same input, 2 tasks, failing engine, working stores; a client of one of the jobs | `BooksBalance`, `AnswerConfirms`, `KeepsPromise`, `StreamHearsTheEnd` |
| `jobs_crash` | 1 job, 2 tasks, up to 3 faults of all kinds | `NoJobLost`, `ClaimedOnce`, `ResultsArePaid`, `OrphansReturn`, `AcceptedJobsFinish`, `QueueDrains` |
| `admission` | 2 requests at a time of one user, 1 user without; batches of 1 or 2, 2 outstanding jobs, depth 3, 1 task, up to 2 crashes, failing or repeated commands | `OutstandingBound`, `DepthBound`, `NeverShutOut` |
| `limits` | 2 clients of one user behind one address; limits 2 (everybody, day) and 1 (minute, address); minute of 2 ticks, day of 4; 1 failing or repeated command or ended request | `WindowLimit`, `CountersExpire`, `CostlyWasCounted` |
| `accounts` | 3 requests, 2 users, 2 servers, 3 keys with one prefix, 1 webhook per user, 1 failing or repeated statement | `AtMostOneActiveKey`, `WithdrawnRefused`, `ActsForOwner`, `WebhookLimit`, `KeysChangedByOwner` |
| `pool` | 3 threads, pools of 2 connections, up to 2 of: outage, lost connection, timeout | `ClosedPoolIsDropped`, `CalmStays` |
| `webhooks` | 2 instances of a release with 2 migrations, 1 restart each, 1 endpoint, 1 task each, 1 kill, outage or repeated command | `FailsOncePerVersion`, `SchemaInOrder`, `ServesMigrated`, `BacklogBound`, `EveryStartServes`, `LoopGoesRound` |
| `selection` | 3 intensities, 4 scores of the original, 2 texts, short or long, 4 and 3 candidates | `MeaningKept`, `KeptTwice`, `BestThatParses` |
| `jobs_cancel` | 1 job, 1 shutdown | `AcceptedJobsKept` is violated |
| `jobs_refund` | 1 job, 1 crash | `FailedJobsRefunded` is violated |

The type invariants (`TypeOK`) of the modules with proofs are proved, not run.

The properties worth knowing:

* `NoJobLost`: a job whose id was pushed and whose row is open is in `queue` or
  `processing`, at every moment, through crashes during recovery, failing stores and commands
  that take effect twice. The exception is explicit: jobs in `unrecorded`.
* `OrphansReturn`, `AcceptedJobsFinish`, `QueueDrains`: what a killed worker left behind is
  queued again; an accepted job ends; nothing waits for ever. `AcceptedJobsFinish` has two
  exceptions (`Stranded`): a job that was popped by a BRPOPLPUSH whose answer was lost stays in
  `processing` until the next start, and all jobs wait for that start while the worker is dead
  of a failed recovery. The other two except the dead worker as well: nothing in the code ends
  that state but a restart of the process, which no one owes.
* `ResultsArePaid`, `BooksBalance`: the credits of a job agree with what its row says. They do
  not say that a failed job has no result to show: if a command fails after the result was
  stored, it has, and that is a finding.
* `ClaimedOnce`: two tasks never work on one job, *unless* recovery was cut short between an
  RPUSH and the DEL, by a kill or by a failing Redis command, or a push was sent twice. In those
  cases they do, and a job may be refunded and delivered: these three properties say so in
  their condition, `~doubled`.
* `KeepsPromise`: the whole of `Stream` implements `JobPromise`. A job goes through its states once,
  whatever deletions, duplicates in the cache and failing engines do; it is worked on only with
  its credits reserved, and they are kept or returned as it ended; once deleted it is gone for good;
  no event announces what has not happened, none goes back, and an answer is the state of the job.
* `StreamHearsTheEnd`, `AnswerConfirms`: the end of a job that was queued is heard without the 120 s
  of the stream, and who then asks is told the same, with the result and the score: the row is
  written before the hash and read after it. The stores work here; a Redis failure after
  `Complete` does turn a completed job into a failed one.
* `LockReturns`: every way out of `charge` gives the user's row back.
* `ImplementsSemaphore`, `ImplementsLedger`: the two protocols are what their one-line
  specifications say.
* `OutstandingBound`, `DepthBound`: the checks before the INSERT and the LPUSH are not the
  limits they are documented as. They say by how much they can be exceeded, and the bounds
  are tight: with one less TLC finds a counterexample. Each request beyond one adds a batch; a
  restart adds to the queue what the worker had taken and what was left in `processing`, and
  a recovery that does not get to its DEL leaves all of that to be added once more.
* `NeverShutOut`: whatever deletions, other users and crashes do, the place of a job is given
  back; only a user's own rows that are stuck, or parked until the next start, can keep that
  user out, or a worker that is dead.
* `WindowLimit`, `CountersExpire`, `CostlyWasCounted`: the counters hold the limit under any
  order of commands; no counter is kept in Redis for ever but by a fault of its own, a first
  INCR that was sent again or a request that ended before its EXPIRE; a request that costs
  credits does not pass without them.
* `AtMostOneActiveKey`, `WebhookLimit`: what the unique index ensures
  on any number of servers, and what only the absence of an `await` ensures, on one. Without
  an index, each further server may add a webhook over the limit.
* `WithdrawnRefused`: about requests that *begin* after the withdrawal of their key or user.
  One that began before may end after; the code does not look twice, apart from the handlers
  of `ClerkOnly`.
* `ActsForOwner`, `KeysChangedByOwner`: though the lookup is by prefix, and revoking is by id,
  nobody acts for, or loses a key to, somebody else.
* `ClosedPoolIsDropped`, `CalmStays`: threads that fail close whatever pool is there, perhaps the
  one another thread has just made, and so make each other fail. What holds is that a closed
  pool does not stay, and that the end of the resets is final: once nobody resets and nobody
  holds a closed pool, no statement fails before a connection or the database does, however
  many threads make pools at once. That the resets do end is *not* guaranteed: two threads
  that take turns can keep them up with a working database, after a single lost connection.
* `SchemaInOrder`, `ServesMigrated`, `FailsOncePerVersion`, `EveryStartServes`: instances may
  migrate at the same time, from lists of versions that are old by then. The transaction of a
  migration and its row decide: the loser fails before it serves, is restarted, and has one
  version fewer to lose about. So a migration takes effect once and in order, and without an
  outage an instance fails at most once for each version and each kill. Whether its restarts
  last is another matter: `app/migrations` has seven files and `railway.json` grants three
  restarts, so on a fresh database collisions alone can use them up. The run has two migrations
  and one restart, where they do. `EveryStartServes` is about the starts before that.
* `BacklogBound`, `LoopGoesRound`: deliveries are taken between two jobs only, all of them if
  nothing is wrong, at least one if something is. That is as many as tasks add, but for what an
  outage keeps from being taken and what an RPUSH that is sent again adds twice; and it never
  keeps the job that was popped before the drain from its task.
* `MeaningKept`, `KeptTwice`, `BestThatParses`: no text is returned that failed a check, whichever
  of the ways out of `humanize` it takes; a text that is humanized again has still kept the
  numbers, negations and words of the first one, though every check has a tolerance (only the
  comparison sentence by sentence can add up); and the first of three that parses, in the order of a
  stable sort, is what a definition without order and loop says it is.

### Bounds, and why they are enough

Three tasks are the fewest with which two can race for the last of two slots while a third
holds the other; TTL 3 and wait 2 leave room for an entry to be fresh, old and stale within
and beyond one wait. Four charges on a grant that covers two or three of them have every
pair that matters: same job, different job, no job. Two jobs with one input are a request
and its cached copy, or two competitors for one task; two tasks are what one job can be
duplicated into. `MaxFaults` bounds the number of faults per behaviour, 3 in
`jobs_crash`: enough for a crash or a Redis failure during the recovery from a crash, and for the failure of what
handles a failure. Two requests at a time are the fewest that can pass one check
together, and batches of two the shortest that can exceed it by more than one; the user
without requests tells a count by user from a count of all. A day of two minutes ends with a
minute, as days do, and not every minute ends a day; limits of 1 and 2 are reached from
below and exceeded, by one client and by both. Three requests on two servers are two that
share an event loop and one that does not; three keys are one, its replacement, and the key
of another user. Three threads are two that reset and one that begins meanwhile; with two
connections to a pool, the third waits. Two instances are one that migrates and one that does so too, or serves, or is
replaced; two migrations and one restart are seven and three in small. That releases differ
is left to the proofs, which have any number of them. With one task an
instance, the loop and the task of the job before are two that touch the list, and the other
instance two more. The candidates of the first text are the text itself, one that drops what
may be dropped, one that loses a word the tolerance does not cover, and one the wording
checks refuse; those of the second a refused one, one that passes, and one whose words are
all there in other sentences: inside the windows of all tiers, near the original, and below them
with a better score and not parsing. The intensities include one out of range and a tier's
border, the four scores both sides of the two gates. The safety
properties do not depend on these bounds: they are proved for all of them, under the
assumptions on faults and holders that are named below.

### Fairness

Weak fairness of the requests' and the tasks' own steps and of the worker's loop: the event
loop runs what is ready. Taking a job is fair as one action (`\E t : Pop(t)`): any free task
will do. The worker's loop includes its start after a crash: the platform restarts the
process (`railway.json`, `restartPolicyType ON_FAILURE`) or the next deployment does. It does
not include a process whose worker is dead: it has not failed, and nobody restarts it, so the
liveness properties except it. Recovery itself is fair and may fail at each of its commands.
`ReapSlot` is fair because every task that waits for a slot reaps. In `Slots`, strong fairness
of `Tick` says that time passes even where nobody waits for it continuously. In `Credits`,
PostgreSQL goes on with a transaction it has begun (`Charge`), which `LockReturns` needs; aborts
are never required. Faults,
refusals, deletions and new requests are never fair. In `Admission` taking a queued job is
strongly fair by user, and so is taking a stale id: the list is first in, first out, and no
longer than `DepthBound`, so an id in it comes to its end although others keep the one task
busy; `Recover` ends, if it does not fail. In `Stream` an open stream is polled again, and the pipeline is as fair as in
`JobPipeline`; the client is not. In `Webhooks` (`Runs`) an instance that is off is started by the
platform, its migrations, its lifespan and its loop go on, an instance that was told to stop
ends, and outages end. It is not assumed that anybody shuts an instance down, that jobs end,
or that somebody deploys again what the platform has given up. Deadlock checking is off for `JobPipeline`, `Stream` and `Accounts` only, where each request runs
once: when all are over, and the queue is empty, the system rests.

## What is proved

For every value of the constants, by TLAPS:

* `EngineProofs`, of `Slots`: `TypeCorrect`; `LimitHolds`, that `HoldersWithinLimit` holds if holders do
  not outlive the TTL; `SlotsImplementSemaphore`. The inductive invariant adds that a task
  past its ZADD has a fresh entry, so that counting entries counts tasks, and that the tasks
  past the second look are within the limit. `EntriesHaveOwners` (`SlotsAccountedFor`) needs no
  such condition: it is inductive with the types.
* `EngineProofs`, of `Selection`: `SelectionTypes`, `MeaningIsKept` (`MeaningKept`), `MeaningKeptTwice`
  (`KeptTwice`) and `BestIsReturned` (`BestThatParses`), for all texts, word lists, rewritings and
  measures. The inductive invariant `SelectionIInv` says that the problems in a record are those
  of its text, how many attempts there are at each point, and that an answer is a candidate
  that passed: the gentle pass of a human text, or `FirstThatParses`.

  What `MeaningKept` counts is not what the code counts. The code takes the numbers of the text
  before its contractions are expanded and its words after; `SaysTheSame` counts both after. That
  this is the same is `TextTokens`: contractions expand to words, never to numbers
  (`SemanticsAssumption`), so flattening the expanded pieces leaves each number as often as it
  was. `FlattenSeq` is a recursive function, and the library's induction takes an operator;
  `Reaches` does induction over the members of a set instead, from the least number a set has
  (`WFMin`). `KeptTwice` rests on `ProblemsOfSentences`: everything but the comparison by sentences
  is an equality, an inclusion, or a set of words that one text has more of than the other, and
  these compose (`PassedTwice`).

  `BestThatParses` needs that the ranks are numbers (`RankIsNat`), so that there is a best
  candidate of any (`BestIs`), and that taking the best away three times leaves those behind that
  three are better than (`LeadersAreNear`).

* `CreditsProofs`: `TypeCorrect`, `NeverOverdrawn`, `ChargedOnce`, `CreditsImplementLedger`. The
  inductive invariant is `LockInv`: whoever is between the lock and COMMIT is alone there, what
  it read is an upper bound of what is used (refunds only lower it), and so its check still
  holds when its row appears. The arithmetic of sums is a cardinality of (row, unit) pairs.
* `JobPipelineProofs`: `TypeCorrect`; `NeverLost`, that `NoJobLost` always holds; `ClaimedByOne`
  (`ClaimedOnce`) and `Paid` (`ResultsArePaid`), whatever fails; `BooksBalanced` (`BooksBalance`);
  and of `Stream`, whose client, expiry and purge are beside the pipeline, `KeptBesideClient` and
  `BooksBesideClient` (the same properties of `StreamSpec`), `AnswersConfirmed`
  (`AnswerConfirms`), and `PromiseKept` and `PromiseKeptUnlessKilled`, that `StreamSpec` implements
  `JobPromise` (`KeepsPromise`).

  `NoJobLost` is not inductive alone. `IInv` adds: a task is idle exactly when it has no job,
  and all are while the worker is down or recovering; only accepted jobs are in a list or in a
  task's hands; copies of cached results are never open; from the point where a task has
  written an outcome its job is not open (or is unrecorded), so the LREM that follows takes
  nothing open off the list; and during recovery every entry of `processing` is in `queue` or
  still to be pushed, so the DEL that follows drops nothing. The lists need lemmas of their
  own: what Append, concatenation, Tail and LREM do to the set of their elements.

  `ClaimedOnce` speaks of tasks only, but a job that is twice in the queue would be taken
  twice. `UniqueInv` therefore says where a job is at all: once in the queue, or once in
  `processing`, where one task may have it, or once among the orphans. `ResultsArePaid` needs
  what a task relies on that has read the row long ago: `PaidInv` says that while one task has a
  job nobody but that task gives its row another status, and that credits are given back only
  for rows that say failed. Both have `~doubled` before them, as the properties have.

  `BooksBalance` is proved for `Faults \subseteq CalmFaults`: failing engines, Redis failures and
  shutdowns that are in time. A Redis failure in the middle of a recovery is one of them, after
  which a job may be done twice, so the property has `~doubled` before it. `BooksInv` says that whenever a row and its usage disagree, the
  request or the task that makes them agree is still there; each of the other faults takes
  away that request or task (a crash, a cancellation, an abandoned request), its statement (a
  PostgreSQL failure), or makes two of it (a push sent again). Those are the findings, not
  gaps of the proof: the runs `jobs_cancel` and `jobs_refund` show two of them.

  `AnswersConfirmed` and `PromiseKept` assume `StoresAnswer`, that neither a Redis command nor a
  PostgreSQL statement fails, and that nothing was doubled; crashes, cancellations, failing
  engines and the expiry of hashes are allowed. The assumption is needed: a command that fails
  after `Publish` makes the completed job a failed one, and so does a failing read of a job
  that was delivered again. `HashInv` relates the three records of an outcome, which are
  written one after the other: a hash tells an end only if the row has it, or is deleted; a
  task on its way to a result has a job whose hash has no end; one that has published or is
  about to has its result in the row. `ClientInv` says that what the client was told is what
  the hash still says or has said before.

  For the refinement each action maps to one of `JobPromise` or to a stutter: a request to `Create`,
  `Reserve`, `PayCopy` or `Drop`, a task to `Start`, `Complete`, `Fail`, `Keep` or `Return`, `Poll` to `Tell`,
  `GetRow` to `Ask`; the lists, the slots, the hash, the cache and recovery to nothing. What has to
  be shown is that statements without a condition on the status (`Complete`, `FailRow`, `settle`,
  `refund` update by id) meet the status they should. `OutcomeInv` says so: no record of a job is
  ahead of its row (`RecordsInv`), a task that works has a job that is processing or deleted, and
  one that will write a failure has none that is completed (`WorkInv`). `SessionInv` says that a
  client is answered once and streams only what was made. Both hypotheses are needed. With a failing
  store a completed job fails; doubled, one task completes what another has failed.
  `PromiseKeptUnlessKilled` discharges `~doubled`: without kills and repeated commands nothing is.

* `LimitsProofs`: `TypeCorrect`, `LimitsHold` (`WindowLimit`), `CostlyCounted` and
  `ForgottenOnlyByFaults` (`CountersExpire`): only a step that is a fault makes a counter
  forgotten, and no more than one (`OneForgotten`). `WindowLimit` is not inductive: a counter that expired within its window would start again. The invariant
  adds that an expiry outlasts what is left of the window, which needs `Ttl > Length`.
* `AccountsProofs`: a theorem for each invariant of the run, and for
  `KeysChangedByOwner`. The parts of the invariant that the properties need: a request that
  has matched a key acts for its owner; whoever is dead and past the first look is refused by
  the next; and between the count of webhooks and their INSERT a request keeps the loop of
  its server, so that the requests that may still add one are no more than the servers.
* `StartupProofs`: `MigrationsInOrder` (`SchemaInOrder`), `MigratedFirst` (`ServesMigrated`),
  `FailuresCounted` (`FailsOncePerVersion`) and `ServiceImplementsSchema`, of the specification of
  `Webhooks`, whose other steps leave the variables of `Startup` alone. The inductive invariant
  says that what an instance knows is the first `n` versions, that the file it is at is the
  next, that without an outage it has failed at most `n` times and once per kill, and that who
  is about to commit is alone and knows all versions. `RestartsSuffice` is what follows for the
  platform, if `Last + MaxFaults <= MaxRestarts`: no instance is given up without an outage. A
  fresh database of this repository does not meet that condition. `TypeCorrect` has the variables of the
  workers too, and `DeliveriesDoNotPileUp` is `BacklogBound`. `BacklogInv` counts, with the
  deliveries in the list, the tasks that may still append one and the jobs that are held where
  no delivery will be taken for them any more. A loop comes there by taking a delivery, by
  finding the list empty, in which case the tasks themselves are the bound (`AtMostTasks`,
  since a held job has a task free for it), or because Redis is away, once in each outage. An
  RPUSH that is sent again adds one to both sides.
* `AdmissionProofs`: `TypeCorrect`, `LimitExceededByLittle` (`OutstandingBound`) and
  `QueueOutgrowsByLittle` (`DepthBound`, if there is a client at all). The inductive
  invariant counts, for each user, the open jobs and the texts that requests have passed the
  check for and not queued yet: together they are at most the limit and a batch for each
  other request, because the one that was checked last saw all the others' rows. For the queue
  (`RoomInv`) what is in `processing` counts as if it were in it, since a restart puts it
  back, and `ParkedInv` says how much that is: with a worker that runs no more than strays, and
  otherwise its tasks' jobs too. A recovery that is cut short adds all of it at most once
  (`PutBackGrows`). Sums over users are cardinalities of sets of numbered jobs (`Total`); the lemmas say
  what one job more or less, and adding two counts, does to them.
* `DbPoolProofs`: `TypeCorrect`, `ClosedDropped` (`ClosedPoolIsDropped`) and `CalmPersists`
  (`CalmStays`). The numbers of pools are used again, so the proof first shows that `Fresh`
  exists: threads and the global refer to no more pools than there are threads, and one.

Assumptions are the named `ASSUME` of each module: constants are sets and numbers of the
right kind, and no contraction stands for a number (`REVERSE_CONTRACTIONS` has letters only). `LimitHolds` and the refinement of the slots also assume `~HoldersMayOverrun`,
which the code does not guarantee: nothing renews the score of an entry, and with
`HoldersMayOverrun = TRUE` the run `slots` finds three tasks that hold two slots. So what
`HoldersWithinLimit`, `ImplementsSemaphore` and their theorems say, they say of jobs that do not
outlive the TTL, and of the others the finding speaks.

Only model-checked: the liveness properties, since TLAPS 1.4.5 has neither fairness nor ENABLED.
Every invariant and every action property that a passing run checks is stated by a theorem.

## Where code and documents disagree

`PROJECT.json`, "findings", quotes the lines. With a run: a shutdown that runs out of its 10 s
loses jobs; a crash between the two statements of `_fail` keeps the credits of a failed job.
Without one: the slot of a running job is reaped after 120 s; a Redis failure after the result
was stored leaves a failed job with a result; `DELETE` removes the row it is said to null; a
failure inside `acquire` leaves a slot entry; webhook deliveries have no `url` and are
dropped, and failed jobs have none; names that are not in capitals are not compared; costly
requests are refused when Redis is away, not let through; the stream of a cached job says
queued; a worker that could not start at boot never does, while `/readyz` says ready, and one whose
recovery fails is gone as well, with its jobs queued twice by the next start; a rate counter may
stay without its TTL; the
recovery of a second instance takes the jobs of the first; a key is regenerated in two transactions, not one step; the limit on outstanding
jobs is exceeded by concurrent requests; jobs that a lost Redis leaves behind are never
marked failed; threads can have several pools; candidates are ranked by a sum in which the
style score outweighs the similarity it should only break ties of; and the second plan of a
low request is one of the medium tier.

## Not modelled

The transforms, the grammar repairs and the analysis of the engine: sequential rewriting and
scoring of English by regular expressions and spaCy, without state, whose correctness is about
wording; what must hold of their results, `semantic_check`, is modelled. Logging, headers, the
health endpoints, the dashboard, the verification of tokens by a library. The posting of a
webhook and its retries, which no execution of the code reaches. Redis losing its data:
`docs/redis.md` says it drops queued jobs. The very first migration, when two instances could
both create `schema_migrations`.

`JobPipeline` has one process (`--workers 1`, `numReplicas 1`), and its worker starts in the end:
that a second instance's recovery takes the first one's jobs, and that a worker may never be
started after an outage at boot, is in the findings and, the second, in `Startup`. A worker whose
recovery fails is in `JobPipeline`. `Slots`,
`Credits` and `Limits` have tasks and requests that may be anybody's, `Accounts` has servers and
`Webhooks` instances.

## Plan

`JobPipeline` with two workers, each with its own tasks and its own recovery over the lists
they share, which is what `docs/deployment.md` says needs testing.
