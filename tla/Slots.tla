-------------------------------- MODULE Slots --------------------------------
(***************************************************************************)
(* SlotManager of app/queue.py: the concurrency limit shared by every      *)
(* worker process, kept in the Redis sorted set "hoomanise:slots".         *)
(*                                                                         *)
(* A task registers itself, looks again, and withdraws when it finds the   *)
(* set over-full; the three Redis calls interleave with those of the other *)
(* tasks.  An entry is never renewed: one older than SlotTTL is reaped by  *)
(* the next task that looks, whether its owner is dead or still running.   *)
(*                                                                         *)
(* Time is relative: age[t] is how long ago t's entry was written (it      *)
(* stops at SlotTTL, from where the entry is stale; 0 without an entry)    *)
(* and left[t] is what remains of t's deadline (0 outside acquire), so the *)
(* model has infinite behaviours and finitely many states.  All processes  *)
(* are taken to read the same clock.                                       *)
(***************************************************************************)
EXTENDS Naturals, FiniteSets

CONSTANTS
  Tasks,              \* job tasks of all workers, one SlotManager each
  JobConcurrency,     \* cfg.job_concurrency
  SlotTTL,            \* cfg.job_slot_ttl_seconds, in ticks
  QueueWait,          \* cfg.job_queue_wait_seconds, in ticks
  HoldersMayOverrun   \* may a task keep its slot for SlotTTL or longer?

ASSUME SlotsAssumption ==
  /\ IsFiniteSet(Tasks)
  /\ JobConcurrency \in Nat
  /\ SlotTTL \in Nat \ {0}
  /\ QueueWait \in Nat
  /\ HoldersMayOverrun \in BOOLEAN

VARIABLES
  pc,      \* where each task is in acquire / process / release
  slots,   \* members of the sorted set
  age,     \* time since each member's score was written, at most SlotTTL
  left     \* time left before each task's acquire gives up

vars == <<pc, slots, age, left>>

\* "try"     head of the loop in acquire     "undo"  about to ZREM itself
\* "add"     counted room, about to ZADD     "hold"  acquire returned True
\* "recheck" registered, about to ZCARD      "dead"  gone, its entry maybe not
PCs == {"idle", "try", "add", "recheck", "undo", "hold", "dead"}

TypeOK ==
  /\ pc \in [Tasks -> PCs]
  /\ slots \in SUBSET Tasks
  /\ age \in [Tasks -> 0..SlotTTL]
  /\ left \in [Tasks -> 0..QueueWait]

Init ==
  /\ pc = [t \in Tasks |-> "idle"]
  /\ slots = {}
  /\ age = [t \in Tasks |-> 0]
  /\ left = [t \in Tasks |-> 0]
-----------------------------------------------------------------------------
Goto(t, from, to) ==
  /\ pc[t] = from
  /\ pc' = [pc EXCEPT ![t] = to]

\* The entries of the tasks in S leave the sorted set.
RemoveEntries(S) ==
  /\ slots' = slots \ S
  /\ age' = [t \in Tasks |-> IF t \in S THEN 0 ELSE age[t]]

Stale == {t \in slots : age[t] = SlotTTL}

\* A new SlotManager (its uuid is not in the set) is asked for a slot.
Begin(t) ==
  /\ pc[t] \in {"idle", "dead"}
  /\ t \notin slots
  /\ pc' = [pc EXCEPT ![t] = "try"]
  /\ left' = [left EXCEPT ![t] = QueueWait]
  /\ UNCHANGED <<slots, age>>

\* One transaction: ZREMRANGEBYSCORE of the entries in S, then ZCARD.
RemoveAndCount(t, S) ==
  /\ left[t] > 0
  /\ Goto(t, "try", IF Cardinality(slots \ S) < JobConcurrency
                    THEN "add" ELSE "try")
  /\ RemoveEntries(S)

\* Variant: the deadline is computed in the loop instead of before it.
DeadlineRestarted(t) ==
  RemoveAndCount(t, Stale) /\ left' = [left EXCEPT ![t] = QueueWait]

ReapAndCount(t) == RemoveAndCount(t, Stale) /\ UNCHANGED left

GiveUp(t) ==
  /\ left[t] = 0
  /\ Goto(t, "try", "idle")
  /\ UNCHANGED <<slots, age, left>>

\* ZADD with the current time as the score.
Register(t) ==
  /\ Goto(t, "add", "recheck")
  /\ slots' = slots \cup {t}
  /\ age' = [age EXCEPT ![t] = 0]
  /\ UNCHANGED left

Acquired(t) ==
  /\ Goto(t, "recheck", "hold")
  /\ left' = [left EXCEPT ![t] = 0]
  /\ UNCHANGED <<slots, age>>

\* Variant: the second ZCARD is left out.
RecheckForgotten(t) == Acquired(t)

\* The second ZCARD: others may have registered since the first one.
Recheck(t) ==
  IF Cardinality(slots) <= JobConcurrency
  THEN Acquired(t)
  ELSE Goto(t, "recheck", "undo") /\ UNCHANGED <<slots, age, left>>

\* Variant: the loser of the re-check goes back to the loop without ZREM.
WithdrawKeepsSlot(t) ==
  Goto(t, "undo", "try") /\ UNCHANGED <<slots, age, left>>

Withdraw(t) ==
  /\ Goto(t, "undo", "try")
  /\ RemoveEntries({t})
  /\ UNCHANGED left

Release(t) ==
  /\ Goto(t, "hold", "idle")
  /\ RemoveEntries({t})
  /\ UNCHANGED left

\* The process is killed, or a Redis call raises: acquire has no handler and
\* process leaves without release, or release itself fails.
Die(t) ==
  /\ pc[t] \notin {"idle", "dead"}
  /\ pc' = [pc EXCEPT ![t] = "dead"]
  /\ left' = [left EXCEPT ![t] = 0]
  /\ UNCHANGED <<slots, age>>

\* Nothing in the code bounds the time from ZADD to ZREM; HoldersMayOverrun
\* says whether this bound is assumed of the environment.
Registered == {t \in Tasks : pc[t] \in {"recheck", "hold"}}

Tick ==
  /\ HoldersMayOverrun \/ \A t \in Registered : age[t] + 1 < SlotTTL
  /\ age' = [t \in Tasks |-> IF t \in slots /\ age[t] < SlotTTL
                             THEN age[t] + 1 ELSE age[t]]
  /\ left' = [t \in Tasks |-> IF left[t] > 0 THEN left[t] - 1 ELSE 0]
  /\ UNCHANGED <<pc, slots>>

Acquiring(t) ==
  ReapAndCount(t) \/ GiveUp(t) \/ Register(t) \/ Recheck(t) \/ Withdraw(t)

Next ==
  \/ \E t \in Tasks : Begin(t) \/ Acquiring(t) \/ Release(t) \/ Die(t)
  \/ Tick

\* The event loop keeps running the tasks that are ready, a job that holds a
\* slot finishes, and time passes.
Fairness ==
  /\ \A t \in Tasks : WF_vars(Acquiring(t)) /\ WF_vars(Release(t))
  /\ SF_vars(Tick)

Spec == Init /\ [][Next]_vars
FairSpec == Spec /\ Fairness
-----------------------------------------------------------------------------
Holders == {t \in Tasks : pc[t] = "hold"}

\* No more jobs run at once than JOB_CONCURRENCY, however the Redis calls of
\* the acquiring tasks interleave and whichever of them die in between.
HoldersWithinLimit == Cardinality(Holders) <= JobConcurrency

\* A task that passed the re-check keeps a fresh entry until it releases it:
\* why counting the entries counts the running jobs.
HoldersRegistered ==
  \A t \in Registered : t \in slots /\ age[t] < SlotTTL

\* acquire and release leave no entry behind: an entry in the set belongs to
\* a task that is between ZADD and ZREM or that died there.
SlotsAccountedFor ==
  \A t \in slots : pc[t] \in {"recheck", "undo", "hold", "dead"}

\* A job never waits for its slot for ever: acquire returns or its task dies,
\* even when tasks keep withdrawing in favour of each other.
AcquireReturns ==
  \A t \in Tasks : pc[t] = "try" ~> pc[t] \in {"hold", "idle", "dead"}

\* The protocol implements the counting semaphore of module Semaphore, as
\* long as nobody outlives the TTL: tasks enter one at a time and only while
\* fewer than JobConcurrency are inside.
Sem == INSTANCE Semaphore WITH Limit <- JobConcurrency, holders <- Holders
ImplementsSemaphore == Sem!Spec
=============================================================================
