----------------------------- MODULE JobPipeline -----------------------------
(***************************************************************************)
(* The life of a humanize job: the request that creates it (routes_v1.py), *)
(* the Redis lists it travels through, and the worker of the same process  *)
(* that claims, processes, fails and recovers it (queue.py).  PostgreSQL   *)
(* and Redis are separate stores without a common transaction: every call  *)
(* to either is a step of its own, and the process can stop in between.    *)
(*                                                                         *)
(* One process hosts the API and one Worker (Procfile, railway.json).  Of  *)
(* a job's data the model keeps which input it has, whether its row has a  *)
(* result; whether the balance covers a charge depends on what else the    *)
(* user spends, so both answers are possible.  Module Credits has the      *)
(* amounts, module Slots the protocol that is an atomic step here.         *)
(*                                                                         *)
(* The head of queue is the right end of the Redis list, where BRPOPLPUSH  *)
(* pops and RPUSH puts back; the head of processing is its right, oldest   *)
(* end as well.                                                            *)
(***************************************************************************)
EXTENDS Naturals, Sequences, FiniteSets

CONSTANTS
  Jobs,             \* job ids, one per request
  NoJob,            \* the job of an idle task
  Inputs,           \* what the response cache is keyed by
  InputOf,          \* the input of each job
  JobConcurrency,   \* cfg.job_concurrency
  Faults,           \* what may go wrong, see below
  MaxFaults         \* how often, a bound of the model

FaultKinds ==
  {"crash",      \* the process is killed
   "stop",       \* the process is shut down and started again
   "cancel",     \* ... and jobs are still running after the 10 s of stop
   "abandon",    \* a request ends early: 504 timeout, or a store fails
   "db",         \* a statement of the worker fails, after its one retry
   "redis",      \* a Redis command of the worker or of recovery fails
   "resend",     \* one that took effect is sent again
   "engine"}     \* humanize or overall_score raises

ASSUME PipelineAssumption ==
  /\ NoJob \notin Jobs
  /\ InputOf \in [Jobs -> Inputs]
  /\ JobConcurrency \in Nat
  /\ Faults \subseteq FaultKinds
  /\ MaxFaults \in Nat

VARIABLES
  submit,       \* where each request is in create_humanize_job
  row,          \* jobs.status, "none" without a row
  result,       \* jobs whose row has a result_text
  usage,        \* the usage record of each job
  cache,        \* inputs with a cached response
  hash,         \* "state" of the Redis hash of each job
  queue,        \* hoomanise:queue
  processing,   \* hoomanise:processing
  worker,       \* where Worker.run is
  orphans,      \* what recover_orphans has still to push back
  tpc,          \* where each of the worker's tasks is in _safe_process
  tjob,         \* its job
  leaked,       \* entries of hoomanise:slots whose owner is gone
  faults,       \* faults so far
  unrecorded,   \* jobs whose task could not write down how it ended
  doubled       \* a push was sent twice, or recovery cut short before its DEL

requests == submit
database == <<row, result, usage>>
redis    == <<cache, hash, queue, processing, leaked>>
process  == <<worker, orphans, tpc, tjob>>
ghosts   == <<faults, unrecorded, doubled>>
vars     == <<requests, database, redis, process, ghosts>>

Tasks == 1..JobConcurrency

Terminal == {"completed", "failed"}
Statuses == {"none", "queued", "processing"} \cup Terminal

InFlight == {"miss", "hit", "inserted", "copied", "charged", "hashed", "refusing"}
SubmitPCs == InFlight \cup {"new", "refused", "accepted", "abandoned"}

\* A record that says "completed" with its credits returned is "waived".
Usages == {"none", "reserved", "completed", "refunded", "waived"}

\* The first _fail runs inside process and holds the slot, the last one in
\* _safe_process or after the wait for a slot timed out.
Working    == {"start", "mark", "work", "settle", "publish", "cache", "release"}
FirstFail  == {"fail_row", "fail_refund", "fail_hash", "fail_release"}
LastFail   == {"last_row", "last_refund", "last_hash"}
SlotUsers  == Working \cup FirstFail
TaskPCs    == {"idle", "read", "acquire", "notify", "lrem"} \cup SlotUsers \cup LastFail

Elems(s) == {s[i] : i \in DOMAIN s}

TypeOK ==
  /\ submit \in [Jobs -> SubmitPCs]
  /\ row \in [Jobs -> Statuses]
  /\ result \in SUBSET Jobs
  /\ usage \in [Jobs -> Usages]
  /\ cache \in SUBSET Inputs
  /\ hash \in [Jobs -> Statuses]
  /\ queue \in Seq(Jobs)
  /\ processing \in Seq(Jobs)
  /\ worker \in {"down", "dead", "recover", "discard", "run", "stopping", "draining"}
  /\ orphans \in Seq(Jobs)
  /\ tpc \in [Tasks -> TaskPCs]
  /\ tjob \in [Tasks -> Jobs \cup {NoJob}]
  /\ leaked \in Nat
  /\ faults \in 0..MaxFaults
  /\ unrecorded \in SUBSET Jobs
  /\ doubled \in BOOLEAN

Init ==
  /\ submit = [j \in Jobs |-> "new"]
  /\ row = [j \in Jobs |-> "none"]
  /\ result = {}
  /\ usage = [j \in Jobs |-> "none"]
  /\ cache \in SUBSET Inputs      \* what was asked for before
  /\ hash = [j \in Jobs |-> "none"]
  /\ queue = <<>>
  /\ processing = <<>>
  /\ worker = "down"
  /\ orphans = <<>>
  /\ tpc = [t \in Tasks |-> "idle"]
  /\ tjob = [t \in Tasks |-> NoJob]
  /\ leaked = 0
  /\ faults = 0
  /\ unrecorded = {}
  /\ doubled = FALSE

Fault(kind) ==
  /\ kind \in Faults
  /\ faults < MaxFaults
  /\ faults' = faults + 1

\* The Redis client sends a command again when its answer is lost or late: a
\* push, a pop or an LREM that had taken effect then does so twice.
Sent       == UNCHANGED ghosts
Resent     == Fault("resend") /\ UNCHANGED <<unrecorded, doubled>>
PushResent == Fault("resend") /\ doubled' = TRUE /\ UNCHANGED unrecorded

\* UPDATE jobs ... WHERE id = j, and UPDATE usage_records ... WHERE job_id = j:
\* deleting the job removed its row and set job_id to NULL.
RowWith(j, s) == [row EXCEPT ![j] = IF @ = "none" THEN @ ELSE s]

UsageWith(j, s) ==
  [usage EXCEPT ![j] = IF row[j] = "none" \/ @ = "none" THEN @ ELSE s]

-----------------------------------------------------------------------------
(* create_humanize_job *)

Submit(j, from, to) ==
  /\ submit[j] = from
  /\ submit' = [submit EXCEPT ![j] = to]

\* The API is there while the process is: the lifespan handler starts the
\* worker first, and stops it when the requests have ended.  It is there too
\* when the worker is dead: nobody looks at its task.
Serving == worker \in {"dead", "recover", "discard", "run"}

\* Authentication and validation passed; the cache is read before the limits
\* are checked, and what was read is used at the end.
ReadCache(j) ==
  /\ Serving
  /\ Submit(j, "new", IF InputOf[j] \in cache THEN "hit" ELSE "miss")
  /\ UNCHANGED <<database, redis, process, ghosts>>

\* 429 or 503 from the rate limiter or _ensure_queue_capacity.
Refuse(j) ==
  /\ Submit(j, "hit", "refused") \/ Submit(j, "miss", "refused")
  /\ UNCHANGED <<database, redis, process, ghosts>>

InsertQueued(j) ==
  /\ Submit(j, "miss", "inserted")
  /\ row' = [row EXCEPT ![j] = "queued"]
  /\ UNCHANGED <<result, usage, redis, process, ghosts>>

InsertCached(j) ==
  /\ Submit(j, "hit", "copied")
  /\ row' = [row EXCEPT ![j] = "completed"]
  /\ result' = result \cup {j}
  /\ UNCHANGED <<usage, redis, process, ghosts>>

\* charge, with status reserved for a queued job and completed for a copy.
Charge(j) ==
  /\ row[j] # "none"
  /\ \/ /\ Submit(j, "inserted", "charged")
        /\ usage' = [usage EXCEPT ![j] = "reserved"]
     \/ /\ Submit(j, "copied", "accepted")
        /\ usage' = [usage EXCEPT ![j] = "completed"]
  /\ UNCHANGED <<row, result, redis, process, ghosts>>

\* 429: the balance does not cover the job.
CreditsExhausted(j) ==
  /\ row[j] # "none"
  /\ Submit(j, "inserted", "refusing") \/ Submit(j, "copied", "refusing")
  /\ UNCHANGED <<database, redis, process, ghosts>>

\* _charge_after_insert removes the row it has inserted.
RemoveRefused(j) ==
  /\ Submit(j, "refusing", "refused")
  /\ row' = [row EXCEPT ![j] = "none"]
  /\ result' = result \ {j}
  /\ UNCHANGED <<usage, redis, process, ghosts>>

\* The job was deleted under the request: the INSERT of the usage record
\* violates its foreign key and the request ends with a 500.
ChargeWithoutRow(j) ==
  /\ row[j] = "none"
  /\ Submit(j, "inserted", "abandoned") \/ Submit(j, "copied", "abandoned")
  /\ UNCHANGED <<database, redis, process, ghosts>>

\* enqueue: HSET before LPUSH, so the worker writes the hash after it.
HashQueued(j) ==
  /\ Submit(j, "charged", "hashed")
  /\ hash' = [hash EXCEPT ![j] = "queued"]
  /\ UNCHANGED <<cache, queue, processing, leaked, database, process, ghosts>>

Push(j) ==
  /\ Submit(j, "hashed", "accepted")
  /\ \/ queue' = Append(queue, j) /\ Sent
     \/ queue' = queue \o <<j, j>> /\ PushResent
  /\ UNCHANGED <<cache, hash, processing, leaked, database, process>>

\* The request ends between two of its steps.  A statement that goes on in its
\* thread after the 504 is one of them: nothing but the client tells it from a
\* step that was taken before, and here a request is over when nothing of it
\* runs any more.
Abandon(j) ==
  /\ Fault("abandon")
  /\ submit[j] \in InFlight
  /\ submit' = [submit EXCEPT ![j] = "abandoned"]
  /\ UNCHANGED <<database, redis, process, unrecorded, doubled>>

\* DELETE /v1/jobs/{id}, whatever the job's state.
DeleteJob(j) ==
  /\ Serving
  /\ row[j] # "none"
  /\ row' = [row EXCEPT ![j] = "none"]
  /\ result' = result \ {j}
  /\ UNCHANGED <<usage, requests, redis, process, ghosts>>
-----------------------------------------------------------------------------
(* Worker.run *)

\* Variant: the processing list is read and deleted before anything is pushed.
DeletesBeforeRequeue ==
  /\ worker = "down"
  /\ orphans' = processing
  /\ processing' = <<>>
  /\ worker' = IF processing = <<>> THEN "run" ELSE "recover"
  /\ UNCHANGED <<tpc, tjob, requests, database, cache, hash, queue, leaked, ghosts>>

\* Variant: a worker that starts leaves the processing list alone.
StartsWithoutRecovery ==
  /\ worker = "down"
  /\ worker' = "run"
  /\ UNCHANGED <<orphans, tpc, tjob, requests, database, redis, ghosts>>

\* start, and the LRANGE of recover_orphans.
StartWorker ==
  /\ worker = "down"
  /\ orphans' = processing
  /\ worker' = IF processing = <<>> THEN "run" ELSE "recover"
  /\ UNCHANGED <<tpc, tjob, requests, database, redis, ghosts>>

\* RPUSH of one orphan, newest first: the oldest ends up at the head.
Requeue ==
  /\ worker = "recover"
  /\ LET o == orphans[Len(orphans)]
     IN  \/ queue' = <<o>> \o queue /\ Sent
         \/ queue' = <<o, o>> \o queue /\ PushResent
  /\ orphans' = SubSeq(orphans, 1, Len(orphans) - 1)
  /\ worker' = IF Len(orphans) = 1 THEN "discard" ELSE "recover"
  /\ UNCHANGED <<tpc, tjob, cache, hash, processing, leaked, requests, database>>

\* DEL of the processing list.
Discard ==
  /\ worker = "discard"
  /\ processing' = <<>>
  /\ worker' = "run"
  /\ UNCHANGED <<orphans, tpc, tjob, cache, hash, queue, leaked, requests, database, ghosts>>

\* Entries of the processing list are in the queue as well.
HalfRecovered == worker = "discard" \/ (worker = "recover" /\ orphans # processing)

\* The LRANGE, an RPUSH or the DEL fails.  Worker.run does not catch it: its
\* task is over, the process goes on, and no worker is started in it again.
RecoveryFails ==
  /\ Fault("redis")
  /\ worker \in {"down", "recover", "discard"}
  /\ worker' = "dead"
  /\ orphans' = <<>>
  /\ doubled' = (doubled \/ HalfRecovered)
  /\ UNCHANGED <<tpc, tjob, requests, database, redis, unrecorded>>

\* Variant: the head of the queue is read and parked, but stays in the queue.
PopsWithoutRemoving(t) ==
  /\ worker \in {"run", "stopping"}
  /\ tpc[t] = "idle"
  /\ queue # <<>>
  /\ processing' = Append(processing, Head(queue))
  /\ tpc' = [tpc EXCEPT ![t] = "read"]
  /\ tjob' = [tjob EXCEPT ![t] = Head(queue)]
  /\ worker' = IF worker = "run" THEN "run" ELSE "draining"
  /\ UNCHANGED <<orphans, queue, cache, hash, leaked, requests, database, ghosts>>

\* BRPOPLPUSH and the task for what it returned, when fewer than
\* JobConcurrency tasks are in flight; without an answer there is no task.  A
\* pop that was waiting when stop was called is the last one.  A new task takes
\* the lowest number that is free.
Pop(t) ==
  /\ worker \in {"run", "stopping"}
  /\ tpc[t] = "idle" /\ \A u \in Tasks : u < t => tpc[u] # "idle"
  /\ queue # <<>>
  /\ queue' = Tail(queue)
  /\ processing' = Append(processing, Head(queue))
  /\ \/ /\ Sent
        /\ tpc' = [tpc EXCEPT ![t] = "read"]
        /\ tjob' = [tjob EXCEPT ![t] = Head(queue)]
        /\ worker' = IF worker = "run" THEN "run" ELSE "draining"
     \/ Resent /\ UNCHANGED <<tpc, tjob, worker>>
  /\ UNCHANGED <<orphans, cache, hash, leaked, requests, database>>

\* Shutdown: the requests have ended when the lifespan handler stops the worker.
\* One that recovers jobs does so first; cancelled after 10 s it is as if killed.
Stop ==
  /\ Fault("stop")
  /\ \A j \in Jobs : submit[j] \notin InFlight
  /\ \/ worker = "run" /\ worker' = "stopping"
     \/ worker = "dead" /\ worker' = "down"
  /\ UNCHANGED <<orphans, tpc, tjob, requests, database, redis, unrecorded, doubled>>

LeaveLoop ==
  /\ worker = "stopping"
  /\ worker' = "draining"
  /\ UNCHANGED <<orphans, tpc, tjob, requests, database, redis, ghosts>>

\* Variant: the drain waits for the processing list instead of the tasks.
ExitsWhenUnlisted ==
  /\ worker = "draining"
  /\ processing = <<>>
  /\ \A t \in Tasks : tpc[t] = "idle"
  /\ worker' = "down"
  /\ UNCHANGED <<orphans, tpc, tjob, requests, database, redis, ghosts>>

\* gather has returned and the process ends.
Exit ==
  /\ worker = "draining"
  /\ \A t \in Tasks : tpc[t] = "idle"
  /\ worker' = "down"
  /\ UNCHANGED <<orphans, tpc, tjob, requests, database, redis, ghosts>>

\* The process is killed: tasks, requests and recovery stop where they are.
Crash ==
  /\ Fault("crash")
  /\ worker # "down"
  /\ worker' = "down"
  /\ orphans' = <<>>
  /\ tpc' = [t \in Tasks |-> "idle"]
  /\ tjob' = [t \in Tasks |-> NoJob]
  /\ leaked' = leaked + Cardinality({t \in Tasks : tpc[t] \in SlotUsers})
  /\ submit' = [j \in Jobs |-> IF submit[j] \in InFlight THEN "abandoned" ELSE submit[j]]
  /\ doubled' = (doubled \/ HalfRecovered)
  /\ UNCHANGED <<cache, hash, queue, processing, database, unrecorded>>

\* A stale entry of the slots set is reaped, a cached response expires.
ReapSlot ==
  /\ leaked > 0
  /\ leaked' = leaked - 1
  /\ UNCHANGED <<cache, hash, queue, processing, requests, database, process, ghosts>>

ExpireCache(i) ==
  /\ i \in cache
  /\ cache' = cache \ {i}
  /\ UNCHANGED <<hash, queue, processing, leaked, requests, database, process, ghosts>>
-----------------------------------------------------------------------------
(* Worker._safe_process and process, one task *)

Task(t, from, to) ==
  /\ tpc[t] = from
  /\ tpc' = [tpc EXCEPT ![t] = to]
  /\ UNCHANGED <<worker, orphans, tjob, requests, ghosts>>

\* Variant: the status is not looked at before the work.
ReadsOnlyExistence(t) ==
  /\ Task(t, "read", IF row[tjob[t]] = "none" THEN "lrem" ELSE "acquire")
  /\ UNCHANGED <<database, redis>>

ReadRow(t) ==
  /\ Task(t, "read", IF row[tjob[t]] \in Terminal \cup {"none"} THEN "lrem" ELSE "acquire")
  /\ UNCHANGED <<database, redis>>

SlotsInUse == Cardinality({t \in Tasks : tpc[t] \in SlotUsers}) + leaked

AcquireSlot(t) ==
  /\ SlotsInUse < JobConcurrency
  /\ Task(t, "acquire", "start")
  /\ UNCHANGED <<database, redis>>

\* The wait for a slot ends only while more want one than there are.
SlotTimeout(t) ==
  /\ SlotsInUse + Cardinality({u \in Tasks : tpc[u] = "acquire"}) > JobConcurrency
  /\ Task(t, "acquire", "last_row")
  /\ UNCHANGED <<database, redis>>

\* UPDATE jobs SET status='processing' ... AND status='queued'
MarkRow(t) ==
  /\ Task(t, "start", "mark")
  /\ row' = IF row[tjob[t]] = "queued" THEN RowWith(tjob[t], "processing") ELSE row
  /\ UNCHANGED <<result, usage, redis>>

SetHash(t, from, to, s) ==
  /\ Task(t, from, to)
  /\ hash' = [hash EXCEPT ![tjob[t]] = s]
  /\ UNCHANGED <<cache, queue, processing, leaked, database>>

MarkHash(t) == SetHash(t, "mark", "work", "processing")

\* humanize has returned; its result is stored whatever the row says by now.
Complete(t) ==
  /\ Task(t, "work", "settle")
  /\ row' = RowWith(tjob[t], "completed")
  /\ result' = IF row[tjob[t]] = "none" THEN result ELSE result \cup {tjob[t]}
  /\ UNCHANGED <<usage, redis>>

EngineError(t) ==
  /\ "engine" \in Faults
  /\ Task(t, "work", "fail_row")
  /\ UNCHANGED <<database, redis>>

\* settle leaves credits_used alone, so a refunded record stays free.
Settle(t) ==
  /\ Task(t, "settle", "publish")
  /\ usage' = UsageWith(tjob[t], IF usage[tjob[t]] \in {"refunded", "waived"}
                                 THEN "waived" ELSE "completed")
  /\ UNCHANGED <<row, result, redis>>

Publish(t) == SetHash(t, "publish", "cache", "completed")

FillCache(t) ==
  /\ Task(t, "cache", "release")
  /\ cache' = cache \cup {InputOf[tjob[t]]}
  /\ UNCHANGED <<hash, queue, processing, leaked, database>>

\* slots.release in the finally of process, on both ways out of it.
ReleaseSlot(t) ==
  /\ Task(t, "release", "notify") \/ Task(t, "fail_release", "last_row")
  /\ UNCHANGED <<database, redis>>

\* _queue_webhook: what it appends to is a list of its own.
Notify(t) ==
  /\ Task(t, "notify", "lrem")
  /\ UNCHANGED <<database, redis>>

\* _fail, in process and once more in _safe_process.
FailRow(t) ==
  /\ Task(t, "fail_row", "fail_refund") \/ Task(t, "last_row", "last_refund")
  /\ row' = RowWith(tjob[t], "failed")
  /\ UNCHANGED <<result, usage, redis>>

\* Variant: only a settled record is refunded.
RefundsSettledOnly(t) ==
  /\ Task(t, "fail_refund", "fail_hash") \/ Task(t, "last_refund", "last_hash")
  /\ usage' = IF usage[tjob[t]] = "completed" THEN UsageWith(tjob[t], "refunded") ELSE usage
  /\ UNCHANGED <<row, result, redis>>

FailRefund(t) ==
  /\ Task(t, "fail_refund", "fail_hash") \/ Task(t, "last_refund", "last_hash")
  /\ usage' = UsageWith(tjob[t], "refunded")
  /\ UNCHANGED <<row, result, redis>>

\* Variant: clients are not told of a failure.
FailsUnseen(t) ==
  /\ Task(t, "fail_hash", "fail_release") \/ Task(t, "last_hash", "lrem")
  /\ UNCHANGED <<database, redis>>

FailHash(t) ==
  \/ SetHash(t, "fail_hash", "fail_release", "failed")
  \/ SetHash(t, "last_hash", "lrem", "failed")

\* LREM processing 1 job: the newest of its occurrences.
Without(s, j) ==
  LET n == CHOOSE n \in DOMAIN s : s[n] = j /\ \A m \in DOMAIN s : s[m] = j => m <= n
  IN  IF j \in Elems(s) THEN SubSeq(s, 1, n - 1) \o SubSeq(s, n + 1, Len(s)) ELSE s

EndTask(t) ==
  /\ tpc[t] = "lrem"
  /\ \/ processing' = Without(processing, tjob[t]) /\ Sent
     \/ processing' = Without(Without(processing, tjob[t]), tjob[t]) /\ Resent
  /\ tpc' = [tpc EXCEPT ![t] = "idle"]
  /\ tjob' = [tjob EXCEPT ![t] = NoJob]
  /\ UNCHANGED <<worker, orphans, cache, hash, queue, leaked, requests, database>>
-----------------------------------------------------------------------------
(* The exceptions of the stores.  process hands one to _fail and to         *)
(* _safe_process; _fail, the webhook and the final LREM swallow theirs.  A  *)
(* call that fails, or whose task is cancelled, after it took effect is its *)
(* step followed by the failure of the next one.                            *)

\* Where an exception at each point leads to.
OnError(p) ==
  CASE p \in {"read", "acquire", "release", "fail_release"} -> "last_row"
    [] p \in Working \ {"release"}                         -> "fail_row"
    [] p \in FirstFail \ {"fail_release"}                  -> "fail_release"
    [] p \in LastFail \cup {"notify"}                       -> "lrem"

UsesDatabase == {"read", "start", "work", "settle", "notify",
                 "fail_row", "fail_refund", "last_row", "last_refund"}
UsesRedis    == {"acquire", "mark", "publish", "cache", "release", "notify",
                 "fail_hash", "fail_release", "last_hash"}

Raise(t, points) ==
  /\ tpc[t] \in points
  /\ tpc' = [tpc EXCEPT ![t] = OnError(tpc[t])]
  /\ UNCHANGED <<worker, orphans, tjob, requests, database>>

\* The last _fail swallows its exception: the status stays what it was.
DbError(t) ==
  /\ Fault("db")
  /\ Raise(t, UsesDatabase)
  /\ unrecorded' = IF tpc[t] = "last_row" THEN unrecorded \cup {tjob[t]} ELSE unrecorded
  /\ UNCHANGED <<redis, doubled>>

\* Where Redis fails while a slot is taken or returned, its entry may stay.
RedisError(t) ==
  /\ Fault("redis")
  /\ Raise(t, UsesRedis)
  /\ \/ leaked' = leaked
     \/ leaked' = leaked + 1 /\ tpc[t] \in {"acquire", "release", "fail_release"}
  /\ UNCHANGED <<cache, hash, queue, processing, unrecorded, doubled>>

\* The final LREM fails: the job stays in processing.
EndTaskWithoutLrem(t) ==
  /\ Fault("redis")
  /\ tpc[t] = "lrem"
  /\ tpc' = [tpc EXCEPT ![t] = "idle"]
  /\ tjob' = [tjob EXCEPT ![t] = NoJob]
  /\ UNCHANGED <<worker, orphans, requests, database, redis, unrecorded, doubled>>

\* stop has waited for 10 s: CancelledError passes every handler of process,
\* and its finally blocks still release the slot and remove the job from
\* processing if they run before the event loop is closed.
Cancel(t) ==
  /\ "cancel" \in Faults
  /\ worker = "draining"
  /\ tpc[t] \notin {"idle", "lrem"}
  /\ \/ /\ tpc' = [tpc EXCEPT ![t] = "lrem"]
        /\ unrecorded' = unrecorded \cup {tjob[t]}
        /\ UNCHANGED <<tjob, leaked>>
     \/ /\ tpc' = [tpc EXCEPT ![t] = "idle"]
        /\ tjob' = [tjob EXCEPT ![t] = NoJob]
        /\ leaked' = IF tpc[t] \in SlotUsers THEN leaked + 1 ELSE leaked
        /\ UNCHANGED unrecorded
  /\ UNCHANGED <<worker, orphans, cache, hash, queue, processing, requests, database,
                 faults, doubled>>
-----------------------------------------------------------------------------
\* Variant: enqueue pushes the job before it writes the hash.
PushesBeforeHash(j) ==
  \/ /\ Submit(j, "charged", "hashed")
     /\ queue' = Append(queue, j)
     /\ UNCHANGED <<cache, hash, processing, leaked, database, process, ghosts>>
  \/ /\ Submit(j, "hashed", "accepted")
     /\ hash' = [hash EXCEPT ![j] = "queued"]
     /\ UNCHANGED <<cache, queue, processing, leaked, database, process, ghosts>>

HashesLast(j) ==
  \/ ReadCache(j) \/ InsertQueued(j) \/ InsertCached(j)
  \/ Charge(j) \/ CreditsExhausted(j) \/ RemoveRefused(j) \/ ChargeWithoutRow(j)
  \/ PushesBeforeHash(j)

Request(j) ==
  \/ ReadCache(j) \/ InsertQueued(j) \/ InsertCached(j)
  \/ Charge(j) \/ CreditsExhausted(j) \/ RemoveRefused(j) \/ ChargeWithoutRow(j)
  \/ HashQueued(j) \/ Push(j)

Process(t) ==
  \/ ReadRow(t) \/ AcquireSlot(t) \/ SlotTimeout(t) \/ MarkRow(t) \/ MarkHash(t)
  \/ Complete(t) \/ EngineError(t) \/ Settle(t) \/ Publish(t) \/ FillCache(t)
  \/ ReleaseSlot(t) \/ Notify(t) \/ FailRow(t) \/ FailRefund(t) \/ FailHash(t)
  \/ EndTask(t)

Loop == StartWorker \/ Requeue \/ Discard \/ LeaveLoop \/ Exit

Next ==
  \/ \E j \in Jobs : Request(j) \/ Refuse(j) \/ Abandon(j) \/ DeleteJob(j)
  \/ \E t \in Tasks : \/ Pop(t) \/ Process(t) \/ Cancel(t)
                      \/ DbError(t) \/ RedisError(t) \/ EndTaskWithoutLrem(t)
  \/ Loop \/ RecoveryFails \/ Stop \/ Crash \/ ReapSlot
  \/ \E i \in Inputs : ExpireCache(i)

Spec == Init /\ [][Next]_vars

\* The event loop and the threads run what is ready, a process that is down
\* is started again (restartPolicyType ON_FAILURE, or the next deployment),
\* and stale slots are reaped by whoever looks for one.  A dead worker in a
\* process that serves is not replaced.
Fairness ==
  /\ \A j \in Jobs : WF_vars(Request(j))
  /\ \A t \in Tasks : WF_vars(Process(t))
  /\ WF_vars(\E t \in Tasks : Pop(t))
  /\ WF_vars(Loop)
  /\ WF_vars(ReapSlot)

FairSpec == Spec /\ Fairness
-----------------------------------------------------------------------------
Accepted(j) == submit[j] = "accepted"
Open(j) == row[j] \in {"queued", "processing"}
Listed(j) == j \in Elems(queue) \cup Elems(processing)
Kept(j) == Accepted(j) /\ Open(j) => Listed(j)

\* Crash safety: an accepted job that is not finished is in one of the two
\* Redis lists, whatever the process was doing when it was killed, recovery
\* included, unless its task was kept from writing down how it ended.
NoJobLost == \A j \in Jobs \ unrecorded : Kept(j)

\* Whatever is in processing when the process is gone gets back into the queue,
\* even if recovery is killed half-way.  If it fails instead, the worker is dead,
\* and the same is said of the next start.
OrphansReturn ==
  \A j \in Jobs :
    worker = "down" /\ j \in Elems(processing) ~> j \in Elems(queue) \/ worker = "dead"

\* A job that was popped without an answer stays in processing until the next
\* start of a worker, and every job waits for one whose worker is dead.
Stranded(j) ==
  \/ worker = "dead"
  \/ /\ worker = "run"
     /\ j \in Elems(processing) \ Elems(queue)
     /\ \A t \in Tasks : tjob[t] # j

\* An accepted job is finished in the end, or deleted, or stranded.
AcceptedJobsFinish ==
  \A j \in Jobs : Accepted(j) /\ Open(j) ~> ~Open(j) \/ j \in unrecorded \/ Stranded(j)

\* Nothing waits in the queue forever: whatever fails but recovery, tasks end,
\* slots that were lost are reaped, and a worker that stops comes back.
QueueDrains ==
  \A j \in Jobs : j \in Elems(queue) ~> j \notin Elems(queue) \/ worker = "dead"

\* As long as recovery is not cut short between its first push and its DEL, by a
\* kill or by Redis, and no push is sent again, a job is in the hands of one task
\* at a time, whatever else fails.
ClaimedOnce ==
  ~doubled =>
    \A t, u \in Tasks : tjob[t] = tjob[u] /\ tjob[t] # NoJob => t = u

\* ... and so a job whose credits were returned is not completed: a failed and
\* refunded job that comes back from processing is not worked on again.  (What
\* a job that failed after its result was stored still shows is a finding.)
ResultsArePaid ==
  ~doubled =>
    \A j \in Jobs : Accepted(j) /\ row[j] = "completed" => usage[j] \in {"reserved", "completed"}

\* A job that nothing works on any more is accounted for: completed ones are
\* paid, failed ones are refunded, unless two tasks have had one job.
Settled(j) ==
  /\ row[j] = "completed" => usage[j] = "completed"
  /\ row[j] = "failed" => usage[j] = "refunded"

AtRest(j) ==
  /\ submit[j] \in {"accepted", "refused", "abandoned"}
  /\ ~Listed(j)
  /\ \A t \in Tasks : tjob[t] # j

BooksBalance == ~doubled => \A j \in Jobs : AtRest(j) => Settled(j)

-----------------------------------------------------------------------------
(* What the documentation says and a fault refutes. *)

\* docs/architecture.md: jobs stuck in processing are re-queued on startup,
\* and the shutdown drains the jobs in flight.  No job is dropped.
AcceptedJobsKept == \A j \in Jobs : Kept(j)

\* docs/endpoints.md: credits are refunded if processing fails.
FailedJobsRefunded ==
  \A j \in Jobs : AtRest(j) /\ Accepted(j) /\ row[j] = "failed" => usage[j] = "refunded"
=============================================================================
