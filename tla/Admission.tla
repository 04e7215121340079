------------------------------ MODULE Admission ------------------------------
(***************************************************************************)
(* How many jobs get in: _ensure_queue_capacity, and the inserting of jobs *)
(* one by one in create_humanize_job and create_humanize_batch             *)
(* (routes_v1.py), against the worker that takes them out of the queue     *)
(* (queue.py).  A request is for a number of texts, one unless it is a     *)
(* batch; capacity is checked once, in two reads, and every text then      *)
(* takes an INSERT, a charge and an LPUSH, each an await of its own.       *)
(*                                                                         *)
(* Jobs are counted, not named; what the worker does with one is in        *)
(* JobPipeline.  The list of an id that is in processing without a task    *)
(* matters here, since the next start puts it back into the queue.  An id  *)
(* that is listed twice counts once as its job and otherwise as stale,     *)
(* whichever of the two is taken first; a second task that ends a job no   *)
(* first task will end does to the counts what deleting that job does.     *)
(*                                                                         *)
(* A statement that runs in a thread goes on when its request has been     *)
(* answered: it is a step of that request, which is abandoned only when    *)
(* nothing of it runs, so that it counts as one of the requests at a time. *)
(***************************************************************************)
EXTENDS Integers, FiniteSets

CONSTANTS
  Users,
  Clients,         \* each sends one request after the other
  UserOf,          \* whose they are
  BatchMax,        \* settings.rate_limit_batch_max
  MaxOutstanding,  \* settings.max_outstanding_jobs_per_user
  MaxQueueDepth,   \* settings.max_queue_depth
  JobConcurrency,  \* how many jobs the worker takes at once
  MaxFaults        \* crashes and failures, a bound of the model

ASSUME AdmissionAssumption ==
  /\ IsFiniteSet(Users)
  /\ IsFiniteSet(Clients)
  /\ UserOf \in [Clients -> Users]
  /\ BatchMax \in Nat \ {0}
  /\ MaxOutstanding \in Nat
  /\ MaxQueueDepth \in Nat
  /\ JobConcurrency \in Nat \ {0}
  /\ MaxFaults \in Nat

VARIABLES
  queued,     \* jobs of each user whose id is in QUEUE_KEY
  running,    \* jobs of each user the worker has taken, open rows too
  stuck,      \* open rows of each user whose id is in no list
  parked,     \* open rows of each user whose id is in PROCESSING_KEY without a task
  stale,      \* other ids in QUEUE_KEY: the row is deleted or ended, or counted already
  stopping,   \* such ids that the worker has taken
  spent,      \* such ids in PROCESSING_KEY without a task
  worker,     \* runs, starts (recover_orphans), or dead until the process restarts
  pc,         \* where each request is
  todo,       \* how many of its texts are not queued yet
  row,        \* whether the row of the text in hand exists
  strays,     \* ids that were listed, or left in processing, once more than meant
  cuts,       \* recoveries that ended before their DEL
  faults      \* failures so far

jobs    == <<queued, running, stuck, parked, stale, stopping, spent, worker>>
request == <<todo, row>>
ghosts  == <<strays, cuts>>
vars    == <<jobs, pc, request, ghosts, faults>>

InLoop == {"insert", "charge", "remove", "push"}

TypeOK ==
  /\ queued \in [Users -> Nat]
  /\ running \in [Users -> Nat]
  /\ stuck \in [Users -> Nat]
  /\ parked \in [Users -> Nat]
  /\ stale \in Nat
  /\ stopping \in Nat
  /\ spent \in Nat
  /\ worker \in {"runs", "starts", "dead"}
  /\ pc \in [Clients -> {"idle", "count", "depth"} \cup InLoop]
  /\ todo \in [Clients -> 0..BatchMax]
  /\ row \in [Clients -> BOOLEAN]
  /\ strays \in Nat
  /\ cuts \in Nat
  /\ faults \in 0..MaxFaults

Init ==
  /\ queued = [u \in Users |-> 0]
  /\ running = [u \in Users |-> 0]
  /\ stuck = [u \in Users |-> 0]
  /\ parked = [u \in Users |-> 0]
  /\ stale = 0
  /\ stopping = 0
  /\ spent = 0
  /\ worker = "starts"
  /\ pc = [c \in Clients |-> "idle"]
  /\ todo = [c \in Clients |-> 0]
  /\ row = [c \in Clients |-> FALSE]
  /\ strays = 0
  /\ cuts = 0
  /\ faults = 0

-----------------------------------------------------------------------------
(* What the code counts. *)

\* The jobs of all users together, those of each user being numbered.
Total(count) == Cardinality(UNION {{u} \X (1..count[u]) : u \in Users})

ClientsOf(u) == {c \in Clients : UserOf[c] = u}

\* Rows of u that a request has inserted and not queued yet.
InHand(u) == Cardinality({c \in ClientsOf(u) : row[c]})

\* SELECT COUNT(*) ... user_id = u AND status IN ('queued', 'processing').
Outstanding(u) == queued[u] + running[u] + stuck[u] + parked[u] + InHand(u)

\* Variant: the count with status = 'queued' only.
FitsBesideRunning(u, n) == Outstanding(u) - running[u] + n <= MaxOutstanding

\* Variant: the count without user_id = u.
FitsBesideOthers(u, n) ==
  Total([v \in Users |-> Outstanding(v)]) + n <= MaxOutstanding

\* outstanding + n > settings.max_outstanding_jobs_per_user is refused.
Fits(u, n) == Outstanding(u) + n <= MaxOutstanding

\* LLEN of QUEUE_KEY.
Depth == stale + Total(queued)

\* Variant: a batch counts as one job.
DepthFitsOne(n) == Depth < MaxQueueDepth

\* depth + n > settings.max_queue_depth is refused.
DepthFits(n) == Depth + n <= MaxQueueDepth

\* len(inflight).
Inflight == stopping + Total(running)

\* What PROCESSING_KEY has beside the ids of inflight.
Parked == spent + Total(parked)

Goto(c, label) == pc' = [pc EXCEPT ![c] = label]

\* The request is answered.
Answer(c) == Goto(c, "idle") /\ todo' = [todo EXCEPT ![c] = 0]

FaultHappens == faults < MaxFaults /\ faults' = faults + 1

\* A command of Redis that is sent again, has no effect, or whose answer is lost,
\* and an id is listed or left once more than meant; and none.
Stray   == FaultHappens /\ strays' = strays + 1 /\ UNCHANGED cuts
AsMeant == UNCHANGED <<ghosts, faults>>

-----------------------------------------------------------------------------
(* A request. *)

Begin(c) ==
  /\ pc[c] = "idle"
  /\ \E n \in 1..BatchMax : todo' = [todo EXCEPT ![c] = n]
  /\ Goto(c, "count")
  /\ UNCHANGED <<jobs, row, ghosts, faults>>

\* 429 too_many_jobs.
CountRows(c) ==
  /\ pc[c] = "count"
  /\ IF Fits(UserOf[c], todo[c]) THEN Goto(c, "depth") /\ UNCHANGED todo ELSE Answer(c)
  /\ UNCHANGED <<jobs, row, ghosts, faults>>

\* 503 queue_full.  A batch may also have an invalid text, and a single text
\* be in the cache, which takes no place among the open jobs.
CheckDepth(c) ==
  /\ pc[c] = "depth"
  /\ \/ DepthFits(todo[c]) /\ Goto(c, "insert") /\ UNCHANGED todo
     \/ Answer(c)
  /\ UNCHANGED <<jobs, row, ghosts, faults>>

\* INSERT INTO jobs, 'queued'.
Insert(c) ==
  /\ pc[c] = "insert"
  /\ row' = [row EXCEPT ![c] = TRUE]
  /\ Goto(c, "charge")
  /\ UNCHANGED <<jobs, todo, ghosts, faults>>

\* The credits cover it or they do not.  Without its row the charge violates
\* the foreign key, which ends the request.
Charge(c) ==
  /\ pc[c] = "charge"
  /\ \/ Goto(c, "remove") /\ UNCHANGED todo
     \/ row[c] /\ Goto(c, "push") /\ UNCHANGED todo
     \/ ~row[c] /\ Answer(c)
  /\ UNCHANGED <<jobs, row, ghosts, faults>>

\* The request gives its row up: nobody will queue it, but it stays open.
LeaveRow(c) ==
  /\ stuck' = IF row[c] THEN [stuck EXCEPT ![UserOf[c]] = @ + 1] ELSE stuck
  /\ row' = [row EXCEPT ![c] = FALSE]

\* 429 credits_exhausted: the row is removed, if the DELETE does not fail, and
\* the texts before it stay queued.
Remove(c) ==
  /\ pc[c] = "remove"
  /\ Answer(c)
  /\ \/ row' = [row EXCEPT ![c] = FALSE] /\ UNCHANGED <<stuck, faults>>
     \/ LeaveRow(c) /\ FaultHappens
  /\ UNCHANGED <<queued, running, parked, stale, stopping, spent, worker, ghosts>>

\* enqueue, whose LPUSH may be sent twice, and on to the next text.
Push(c) ==
  /\ pc[c] = "push"
  /\ queued' = IF row[c] THEN [queued EXCEPT ![UserOf[c]] = @ + 1] ELSE queued
  /\ LET ids == IF row[c] THEN stale ELSE stale + 1
     IN  \/ stale' = ids /\ AsMeant
         \/ stale' = ids + 1 /\ Stray
  /\ row' = [row EXCEPT ![c] = FALSE]
  /\ todo' = [todo EXCEPT ![c] = @ - 1]
  /\ Goto(c, IF todo[c] = 1 THEN "idle" ELSE "insert")
  /\ UNCHANGED <<running, stuck, parked, stopping, spent, worker>>

\* A statement or command fails, or the 30 s of the request are over.
Abandon(c) ==
  /\ pc[c] # "idle"
  /\ FaultHappens
  /\ Answer(c)
  /\ LeaveRow(c)
  /\ UNCHANGED <<queued, running, parked, stale, stopping, spent, worker, ghosts>>

-----------------------------------------------------------------------------
(* DELETE /v1/jobs/{id}: the row goes, an id in Redis stays. *)

DeleteQueued(u) ==
  /\ queued[u] > 0
  /\ queued' = [queued EXCEPT ![u] = @ - 1]
  /\ stale' = stale + 1
  /\ UNCHANGED <<running, stuck, parked, stopping, spent, worker, pc, request>>

DeleteRunning(u) ==
  /\ running[u] > 0
  /\ running' = [running EXCEPT ![u] = @ - 1]
  /\ stopping' = stopping + 1
  /\ UNCHANGED <<queued, stuck, parked, stale, spent, worker, pc, request>>

DeleteStuck(u) ==
  /\ stuck[u] > 0
  /\ stuck' = [stuck EXCEPT ![u] = @ - 1]
  /\ UNCHANGED <<queued, running, parked, stale, stopping, spent, worker, pc, request>>

DeleteParked(u) ==
  /\ parked[u] > 0
  /\ parked' = [parked EXCEPT ![u] = @ - 1]
  /\ spent' = spent + 1
  /\ UNCHANGED <<queued, running, stuck, stale, stopping, worker, pc, request>>

DeleteInHand(c) ==
  /\ row[c]
  /\ row' = [row EXCEPT ![c] = FALSE]
  /\ UNCHANGED <<jobs, pc, todo, ghosts, faults>>

-----------------------------------------------------------------------------
(* The worker. *)

\* BRPOPLPUSH: the job gets a task, or the answer is lost and it does not.
Pops == worker = "runs" /\ Inflight < JobConcurrency

Take(u) ==
  /\ Pops
  /\ queued[u] > 0
  /\ queued' = [queued EXCEPT ![u] = @ - 1]
  /\ running' = [running EXCEPT ![u] = @ + 1]
  /\ AsMeant
  /\ UNCHANGED <<stuck, parked, stale, stopping, spent, worker, pc, request>>

TakeStale ==
  /\ Pops
  /\ stale > 0
  /\ stale' = stale - 1
  /\ stopping' = stopping + 1
  /\ AsMeant
  /\ UNCHANGED <<queued, running, stuck, parked, spent, worker, pc, request>>

LosePop(u) ==
  /\ Pops
  /\ Stray
  /\ \/ /\ queued[u] > 0
        /\ queued' = [queued EXCEPT ![u] = @ - 1]
        /\ parked' = [parked EXCEPT ![u] = @ + 1]
        /\ UNCHANGED <<stale, spent>>
     \/ /\ stale > 0
        /\ stale' = stale - 1
        /\ spent' = spent + 1
        /\ UNCHANGED <<queued, parked>>
  /\ UNCHANGED <<running, stuck, stopping, worker, pc, request>>

\* finally: LREM, whose failure is ignored.
Unlisted == (spent' = spent /\ AsMeant) \/ (spent' = spent + 1 /\ Stray)

\* The job is completed or failed.
Finish(u) ==
  /\ running[u] > 0
  /\ running' = [running EXCEPT ![u] = @ - 1]
  /\ Unlisted
  /\ UNCHANGED <<queued, stuck, parked, stale, stopping, worker, pc, request>>

FinishStale ==
  /\ stopping > 0
  /\ stopping' = stopping - 1
  /\ Unlisted
  /\ UNCHANGED <<queued, running, stuck, parked, stale, worker, pc, request>>

\* The statement that was to end it failed, or its task was cancelled by a
\* shutdown; the LREM may fail as well.
Lose(u) ==
  /\ running[u] > 0
  /\ running' = [running EXCEPT ![u] = @ - 1]
  /\ \/ /\ stuck' = [stuck EXCEPT ![u] = @ + 1]
        /\ FaultHappens
        /\ UNCHANGED <<parked, ghosts>>
     \/ /\ parked' = [parked EXCEPT ![u] = @ + 1]
        /\ Stray
        /\ UNCHANGED stuck
  /\ UNCHANGED <<queued, stale, stopping, spent, worker, pc, request>>

\* recover_orphans to its end: what was in processing is in the queue.  An RPUSH
\* may be sent twice.
Recover ==
  /\ worker = "starts"
  /\ worker' = "runs"
  /\ queued' = [u \in Users |-> queued[u] + parked[u]]
  /\ parked' = [u \in Users |-> 0]
  /\ \/ stale' = stale + spent /\ AsMeant
     \/ stale' = stale + spent + 1 /\ Parked > 0 /\ Stray
  /\ spent' = 0
  /\ UNCHANGED <<running, stuck, stopping, pc, request>>

\* A recovery that ends before its DEL has pushed some of the ids, which stay in
\* processing too.
CutShort ==
  /\ worker = "starts"
  /\ stale' \in stale..stale + Parked
  /\ cuts' = cuts + 1

\* LRANGE, RPUSH or DEL fails: the worker's task is over, the process goes on.
RecoveryFails ==
  /\ CutShort
  /\ FaultHappens
  /\ worker' = "dead"
  /\ UNCHANGED <<queued, running, stuck, parked, stopping, spent, pc, request, strays>>

\* The process is killed, with its requests and tasks, and starts again.
Crash ==
  /\ FaultHappens
  /\ CutShort \/ (worker # "starts" /\ UNCHANGED <<stale, cuts>>)
  /\ worker' = "starts"
  /\ parked' = [u \in Users |-> parked[u] + running[u]]
  /\ running' = [u \in Users |-> 0]
  /\ spent' = spent + stopping
  /\ stopping' = 0
  /\ stuck' = [u \in Users |-> stuck[u] + InHand(u)]
  /\ row' = [c \in Clients |-> FALSE]
  /\ todo' = [c \in Clients |-> 0]
  /\ pc' = [c \in Clients |-> "idle"]
  /\ UNCHANGED <<queued, strays>>

-----------------------------------------------------------------------------
Step(c) ==
  \/ CountRows(c) \/ CheckDepth(c)
  \/ Insert(c) \/ Charge(c) \/ Remove(c) \/ Push(c)

Delete(u) ==
  /\ DeleteQueued(u) \/ DeleteRunning(u) \/ DeleteStuck(u) \/ DeleteParked(u)
  /\ AsMeant

Next ==
  \/ \E c \in Clients : Begin(c) \/ Step(c) \/ Abandon(c) \/ DeleteInHand(c)
  \/ \E u \in Users : Delete(u) \/ Take(u) \/ LosePop(u) \/ Finish(u) \/ Lose(u)
  \/ TakeStale \/ FinishStale
  \/ Recover \/ RecoveryFails \/ Crash

\* Requests end, jobs finish and a recovery does.  The queue is first in, first
\* out, and its depth is bounded: an id that is in it reaches its end.
Fairness ==
  /\ \A c \in Clients : WF_vars(Step(c))
  /\ \A u \in Users : SF_vars(Take(u)) /\ WF_vars(Finish(u))
  /\ SF_vars(TakeStale)
  /\ WF_vars(FinishStale)
  /\ WF_vars(Recover)

Spec == Init /\ [][Next]_vars /\ Fairness

-----------------------------------------------------------------------------
(* Properties. *)

\* Requests of one user that are checked at the same time exceed the limit on
\* outstanding jobs, but by no more than a batch for each request beyond one.
OutstandingBound ==
  \A u \in Users : ClientsOf(u) # {} =>
    Outstanding(u) <= MaxOutstanding + (Cardinality(ClientsOf(u)) - 1) * BatchMax

\* So do the requests of everybody exceed the queue's depth, and a restart by what
\* it puts back: the jobs the worker had taken, and what was left in processing
\* or listed twice, all of it once more for a recovery that did not get to its
\* DEL.  Deleted jobs, whose ids stay, do not add to that.
DepthBound ==
  Depth <= MaxQueueDepth + (Cardinality(Clients) - 1) * BatchMax
             + (1 + cuts) * (JobConcurrency + strays)

\* Whatever other users' requests, deletions and lost jobs do, a user none of
\* whose rows is stuck, or parked until the next restart, is let in again and
\* again, and the queue has room, while there is a worker.
NeverShutOut ==
  /\ \A u \in Users : []<>(Fits(u, 1) \/ stuck[u] + parked[u] > 0 \/ worker = "dead")
  /\ []<>(DepthFits(1) \/ worker = "dead")
=============================================================================
