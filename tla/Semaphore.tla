------------------------------ MODULE Semaphore ------------------------------
(***************************************************************************)
(* What the Redis slot protocol of app/queue.py promises: a counting       *)
(* semaphore.  At most Limit tasks run the humanizer at the same time, a   *)
(* task enters alone, and a task leaves whenever it finishes or dies.      *)
(***************************************************************************)
EXTENDS Naturals, FiniteSets

CONSTANTS Tasks,   \* the tasks that may hold the semaphore
          Limit    \* cfg.job_concurrency

VARIABLE holders   \* the tasks inside

Init == holders = {}

Enter(t) ==
  /\ t \notin holders
  /\ Cardinality(holders) < Limit
  /\ holders' = holders \cup {t}

Leave(t) ==
  /\ t \in holders
  /\ holders' = holders \ {t}

Next == \E t \in Tasks : Enter(t) \/ Leave(t)

Spec == Init /\ [][Next]_holders
=============================================================================
