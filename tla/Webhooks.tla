------------------------------ MODULE Webhooks ------------------------------
(***************************************************************************)
(* Webhook deliveries, queue.py: the task of a finished job looks for an   *)
(* endpoint of its user and appends a delivery to hoomanise:webhooks, and  *)
(* the loop of a worker, between popping a job and making its task, empties*)
(* that list.  The loop runs in an instance whose lifespan has started a   *)
(* worker, until that instance is shut down or killed, and meets the       *)
(* outages that Startup has.                                               *)
(*                                                                         *)
(* What _queue_webhook appends has no "url", which _drain_webhooks reads   *)
(* once it has found the endpoint.  Nothing else appends to the list, so   *)
(* what follows that line, the post and the retry, is never reached.       *)
(***************************************************************************)
EXTENDS Startup

CONSTANTS
  Hooks,           \* the endpoints of one user
  NoItem,          \* None
  JobConcurrency   \* cfg.job_concurrency

ASSUME WebhooksAssumption ==
  /\ IsFiniteSet(Instances)
  /\ NoItem \notin Hooks
  /\ Hooks \cap {"idle", "working"} = {}
  /\ JobConcurrency \in Nat \ {0}

VARIABLES
  list,      \* hoomanise:webhooks, as the endpoints of its entries
  enabled,   \* endpoints with disabled_at IS NULL
  loop,      \* where each worker's loop is
  held,      \* whether it holds a job it has popped
  item,      \* the delivery it has popped
  task,      \* idle, working, or the endpoint found for the delivery
  resends    \* commands sent again after a lost answer, so far

deliveries == <<list, enabled, loop, held, item, task, resends>>
vars       == <<startup, deliveries>>

Tasks == 1..JobConcurrency

TypeOK ==
  /\ StartupTypeOK
  /\ list \in Seq(Hooks)
  /\ enabled \subseteq Hooks
  /\ loop \in [Instances -> {"pop", "drain", "lookup", "spawn"}]
  /\ held \in [Instances -> BOOLEAN]
  /\ item \in [Instances -> Hooks \cup {NoItem}]
  /\ task \in [Instances -> [Tasks -> {"idle", "working"} \cup Hooks]]
  /\ resends \in 0..MaxFaults

Init ==
  /\ StartupInit
  /\ list = <<>>
  /\ enabled = Hooks
  /\ loop = [i \in Instances |-> "pop"]
  /\ held = [i \in Instances |-> FALSE]
  /\ item = [i \in Instances |-> NoItem]
  /\ task = [i \in Instances |-> [k \in Tasks |-> "idle"]]
  /\ resends = 0

-----------------------------------------------------------------------------
(* run, from one pop to the next *)

LoopTo(i, from, to) ==
  /\ loop[i] = from
  /\ i \in Working
  /\ loop' = [loop EXCEPT ![i] = to]

\* A job, or nothing after 2 s.
Pop(i) ==
  /\ LoopTo(i, "pop", "drain")
  /\ i \in Taking
  /\ "redis" \in up
  /\ \E k \in Tasks : task[i][k] = "idle"
  /\ held' \in {[held EXCEPT ![i] = b] : b \in BOOLEAN}
  /\ UNCHANGED <<startup, list, enabled, item, task, resends>>

\* Variant: the entry is read and left in the list.
ReadsTheList == list

AfterPop == Tail(list)

\* LPOP, until there is nothing.
Take(i) ==
  /\ loop[i] = "drain"
  /\ "redis" \in up
  /\ IF list = <<>>
     THEN LoopTo(i, "drain", "spawn") /\ UNCHANGED <<list, item>>
     ELSE /\ LoopTo(i, "drain", "lookup")
          /\ item' = [item EXCEPT ![i] = Head(list)]
          /\ list' = AfterPop
  /\ UNCHANGED <<startup, enabled, held, task, resends>>

\* Variant: an error of the drain is not caught, and the loop is over.
EndsTheLoop == "lookup"

\* A KeyError or an unreachable store ends the drain, and is caught in run.
AfterError == "spawn"

\* SELECT ... WHERE disabled_at IS NULL: the endpoint is disabled, and the
\* drain goes on, or it is found, and item["url"] raises a KeyError.
Lookup(i) ==
  /\ loop[i] = "lookup"
  /\ "db" \in up
  /\ LoopTo(i, "lookup", IF item[i] \in enabled THEN AfterError ELSE "drain")
  /\ item' = [item EXCEPT ![i] = NoItem]
  /\ UNCHANGED <<startup, list, enabled, held, task, resends>>

StoreError(i) ==
  /\ \/ "redis" \notin up /\ LoopTo(i, "drain", AfterError)
     \/ "db" \notin up /\ LoopTo(i, "lookup", AfterError)
  /\ item' = [item EXCEPT ![i] = NoItem]
  /\ UNCHANGED <<startup, list, enabled, held, task, resends>>

\* create_task, if there is a job.
Spawn(i) ==
  /\ LoopTo(i, "spawn", "pop")
  /\ IF held[i]
     THEN \E k \in Tasks : task[i][k] = "idle" /\ task' = [task EXCEPT ![i][k] = "working"]
     ELSE UNCHANGED task
  /\ held' = [held EXCEPT ![i] = FALSE]
  /\ UNCHANGED <<startup, list, enabled, item, resends>>
-----------------------------------------------------------------------------
(* _queue_webhook, in a task *)

\* SELECT ... LIMIT 1, or nothing: the job failed, there is no endpoint, or
\* the statement fails.
FindEndpoint(i, k) ==
  /\ task[i][k] = "working"
  /\ task' \in {[task EXCEPT ![i][k] = f] : f \in {"idle"} \cup (IF "db" \in up THEN enabled ELSE {})}
  /\ UNCHANGED <<startup, list, enabled, loop, held, item, resends>>

\* RPUSH of the delivery.
QueueDelivery(i, k) ==
  /\ task[i][k] \in Hooks
  /\ list' = IF "redis" \in up THEN Append(list, task[i][k]) ELSE list
  /\ task' = [task EXCEPT ![i][k] = "idle"]
  /\ UNCHANGED <<startup, enabled, loop, held, item, resends>>

\* The answer of Redis is lost, and its client sends the command again.
Resent ==
  /\ "redis" \in up
  /\ kills + outages + resends < MaxFaults
  /\ resends' = resends + 1

\* The RPUSH has appended the delivery, and is about to do so again.
QueueAgain(i, k) ==
  /\ task[i][k] \in Hooks
  /\ Resent
  /\ list' = Append(list, task[i][k])
  /\ UNCHANGED <<startup, enabled, loop, held, item, task>>

\* The LPOP has taken a delivery that nobody gets, and is about to take the next.
TakeAgain(i) ==
  /\ loop[i] = "drain"
  /\ i \in Working
  /\ list # <<>>
  /\ Resent
  /\ list' = Tail(list)
  /\ UNCHANGED <<startup, enabled, loop, held, item, task>>

\* disable_webhook
Disable(h) ==
  /\ h \in enabled
  /\ enabled' = enabled \ {h}
  /\ UNCHANGED <<startup, list, loop, held, item, task, resends>>

\* The worker is gone, with what it had in memory; a job that it held stays
\* in processing.
Die(i) ==
  /\ loop' = [loop EXCEPT ![i] = "pop"]
  /\ held' = [held EXCEPT ![i] = FALSE]
  /\ item' = [item EXCEPT ![i] = NoItem]
  /\ task' = [task EXCEPT ![i] = [k \in Tasks |-> "idle"]]
  /\ UNCHANGED <<list, enabled, resends>>

Loop(i) == Pop(i) \/ Take(i) \/ Lookup(i) \/ StoreError(i) \/ Spawn(i)

Delivers ==
  \/ \E i \in Instances : Loop(i) \/ TakeAgain(i)
  \/ \E i \in Instances, k \in Tasks :
       FindEndpoint(i, k) \/ QueueDelivery(i, k) \/ QueueAgain(i, k)
  \/ \E h \in Hooks : Disable(h)

Next ==
  \/ (\E i \in Instances : ComesUp(i)) /\ UNCHANGED deliveries
  \/ \E i \in Instances : Ends(i) /\ Die(i)
  \/ Environment /\ UNCHANGED deliveries
  \/ Delivers

\* The platform starts an instance that has ended; outages end; threads and
\* event loops run what is ready.  Nobody has to shut an instance down, and
\* jobs need not end.
Runs(i) ==
  \/ pc[i] # "serving" /\ UNCHANGED deliveries /\ ComesUp(i)
  \/ i \in Working /\ Loop(i)

Fairness ==
  /\ \A i \in Instances : WF_vars(Runs(i)) /\ WF_vars(Exit(i) /\ Die(i))
  /\ WF_vars(UNCHANGED deliveries /\ \E s \in Stores : Restored(s))

Spec == Init /\ [][Next]_vars /\ Fairness
-----------------------------------------------------------------------------
\* Instances that migrate at the same time, and whose transactions therefore
\* fail, all get to serve, unless their restarts are used up, by whatever it was
\* that failed.
EveryStartServes ==
  \A i \in Instances : pc[i] = "read" ~> pc[i] = "serving" \/ restarts[i] > MaxRestarts

\* A loop always gets to its next pop: however many deliveries there are, and
\* whatever is wrong with one, the job that was popped before gets its task.
LoopGoesRound ==
  \A i \in Instances : loop[i] # "pop" ~> loop[i] = "pop"

\* Deliveries do not pile up, although they are taken only between two jobs
\* and one that fails ends the drain: an iteration of a loop that makes a task
\* has taken one from the list, unless the list was empty or Redis away.  A
\* delivery whose answer was lost is there once more.
BacklogBound ==
  Len(list) <= Cardinality(Instances) * (JobConcurrency + outages) + resends
=============================================================================
