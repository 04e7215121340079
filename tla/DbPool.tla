------------------------------- MODULE DbPool -------------------------------
(***************************************************************************)
(* The connection pool that the threads of the process share, db.py: the   *)
(* global _pool that get_pool makes, that query and execute throw away     *)
(* after a transient error before they try once more, and that a charge    *)
(* (credits.py) uses without a second try.  Threads interleave wherever    *)
(* one of them reads or writes the global.                                 *)
(*                                                                         *)
(* psycopg_pool is external: a pool hands out connections until it is      *)
(* closed, from when on it refuses, also those that wait; a statement that *)
(* has a connection keeps it.  Pools are numbers; one that nobody refers   *)
(* to any more is collected, and its number used again.                    *)
(***************************************************************************)
EXTENDS Naturals, FiniteSets

CONSTANTS
  Threads,
  MaxPools,    \* pools that exist at once, a bound of the model
  PoolMax,     \* settings.db_pool_max
  NoPool,      \* None
  MaxFaults    \* outages, lost connections, timeouts, a bound of the model

Pools == 1..MaxPools

ASSUME DbPoolAssumption ==
  /\ IsFiniteSet(Threads)
  /\ MaxPools \in Nat /\ MaxPools > Cardinality(Threads) + 1
  /\ PoolMax \in Nat \ {0}
  /\ NoPool \notin Nat
  /\ MaxFaults \in Nat

VARIABLES
  current,   \* _pool
  closed,    \* the pools that were closed
  up,        \* the database answers
  pc,        \* where each thread is in its statement
  pool,      \* the pool that get_pool returned to it
  retries,   \* whether it may try again
  faults     \* failures so far

vars == <<current, closed, up, pc, pool, retries, faults>>

Over == {"idle", "failed"}

TypeOK ==
  /\ current \in Pools \cup {NoPool}
  /\ closed \subseteq Pools
  /\ up \in BOOLEAN
  /\ pc \in [Threads -> Over \cup {"get", "create", "return", "connect", "run", "close", "drop"}]
  /\ pool \in [Threads -> Pools \cup {NoPool}]
  /\ \A t \in Threads : pool[t] \in Pools <=> pc[t] \in {"connect", "run"}
  /\ retries \in [Threads -> BOOLEAN]
  /\ faults \in 0..MaxFaults

\* The lifespan has made the first pool before any request.
Init ==
  /\ current = 1
  /\ closed = {}
  /\ up = TRUE
  /\ pc = [t \in Threads |-> "idle"]
  /\ pool = [t \in Threads |-> NoPool]
  /\ retries = [t \in Threads |-> FALSE]
  /\ faults = 0

-----------------------------------------------------------------------------
Goto(t, label) == pc' = [pc EXCEPT ![t] = label]

FaultHappens == faults < MaxFaults /\ faults' = faults + 1

\* Pools that somebody refers to.
Live == {current} \cup {pool[t] : t \in Threads}

\* The number of a new pool.
Fresh == CHOOSE p \in Pools : p \notin Live

\* Variant: the pool is made with open=False.
NotOpened == (closed \cap Live) \cup {Fresh}

\* The pools that are closed once there is a new one, which is made with open=True.
StillClosed == closed \cap Live

\* All connections of p are in use.
Full(p) == Cardinality({t \in Threads : pc[t] = "run" /\ pool[t] = p}) >= PoolMax

\* with ... as conn: whatever happens in it, t is rid of its pool.
Finish(t, how) == Goto(t, how) /\ pool' = [pool EXCEPT ![t] = NoPool]

\* except _TRANSIENT in query and execute, once.
AfterError(t) == IF retries[t] THEN "close" ELSE "failed"

\* A psycopg.OperationalError, which PoolClosed and PoolTimeout are too.
TransientError(t) == Finish(t, AfterError(t))

-----------------------------------------------------------------------------
\* query or execute, or a charge, which has no second try.
Begin(t) ==
  /\ pc[t] \in Over
  /\ \E b \in BOOLEAN : retries' = [retries EXCEPT ![t] = b]
  /\ Goto(t, "get")
  /\ UNCHANGED <<current, closed, up, pool, faults>>

\* if _pool is None.
Get(t) ==
  /\ pc[t] = "get"
  /\ Goto(t, IF current = NoPool THEN "create" ELSE "return")
  /\ UNCHANGED <<current, closed, up, pool, retries, faults>>

\* _pool = ConnectionPool(...), whatever another thread made in the meantime.
Create(t) ==
  /\ pc[t] = "create"
  /\ current' = Fresh
  /\ closed' = StillClosed
  /\ Goto(t, "return")
  /\ UNCHANGED <<up, pool, retries, faults>>

\* return _pool, which may be None again: then .connection is an AttributeError.
Return(t) ==
  /\ pc[t] = "return"
  /\ IF current = NoPool
     THEN Finish(t, "failed")
     ELSE pool' = [pool EXCEPT ![t] = current] /\ Goto(t, "connect")
  /\ UNCHANGED <<current, closed, up, retries, faults>>

\* The pool hands out a connection that works.
Connect(t) ==
  /\ pc[t] = "connect"
  /\ pool[t] \notin closed
  /\ up
  /\ ~Full(pool[t])
  /\ Goto(t, "run")
  /\ UNCHANGED <<current, closed, up, pool, retries, faults>>

\* PoolClosed, or PoolTimeout after 10 s: no connection works, or all are in use.
Refused(t) ==
  /\ pc[t] = "connect"
  /\ \/ (pool[t] \in closed \/ ~up) /\ UNCHANGED faults
     \/ Full(pool[t]) /\ FaultHappens
  /\ TransientError(t)
  /\ UNCHANGED <<current, closed, up, retries>>

\* The statement is committed, and its connection returned or discarded.
Run(t) ==
  /\ pc[t] = "run"
  /\ up
  /\ Finish(t, "idle")
  /\ UNCHANGED <<current, closed, up, retries, faults>>

\* The connection is lost, before the commit or after.
Lost(t) ==
  /\ pc[t] = "run"
  /\ IF up THEN FaultHappens ELSE UNCHANGED faults
  /\ TransientError(t)
  /\ UNCHANGED <<current, closed, up, retries>>

\* _reset_pool closes whatever is _pool now, perhaps nothing.
Close(t) ==
  /\ pc[t] = "close"
  /\ closed' = closed \cup ({current} \ {NoPool})
  /\ Goto(t, "drop")
  /\ UNCHANGED <<current, up, pool, retries, faults>>

\* Variant: the reset closes the pool and leaves it there.
LeftThere == current

\* _pool = None, whatever is _pool now.
Dropped == NoPool

\* ... and on to the second try.
Drop(t) ==
  /\ pc[t] = "drop"
  /\ current' = Dropped
  /\ retries' = [retries EXCEPT ![t] = FALSE]
  /\ Goto(t, "get")
  /\ UNCHANGED <<closed, up, pool, faults>>

\* The database stops to answer, and answers again.
Outage ==
  /\ up
  /\ FaultHappens
  /\ up' = FALSE
  /\ UNCHANGED <<current, closed, pc, pool, retries>>

Restored ==
  /\ ~up
  /\ up' = TRUE
  /\ UNCHANGED <<current, closed, pc, pool, retries, faults>>

Step(t) ==
  \/ Get(t) \/ Create(t) \/ Return(t) \/ Connect(t) \/ Refused(t)
  \/ Run(t) \/ Lost(t) \/ Close(t) \/ Drop(t)

Next ==
  \/ \E t \in Threads : Begin(t) \/ Step(t)
  \/ Outage
  \/ Restored

Spec == Init /\ [][Next]_vars

-----------------------------------------------------------------------------
(* Properties. *)

\* A closed pool does not stay: whoever closed it is about to take it away.  If
\* it stayed, every statement of the process would fail from then on.
ClosedPoolIsDropped == current \in closed => \E t \in Threads : pc[t] = "drop"

\* Nobody is resetting, and nobody holds what a reset has left.
Calm ==
  /\ up
  /\ current \notin closed
  /\ \A t \in Threads :
       /\ pc[t] \notin {"close", "drop"}
       /\ pc[t] = "return" => current # NoPool
       /\ pc[t] = "connect" => pool[t] \notin closed

\* Threads that share a pool reset it under each other; once that has settled
\* no statement fails until the database or a connection does, not even while
\* several threads make pools at once.
CalmStays ==
  [][Calm /\ faults' = faults =>
       /\ Calm'
       /\ \A t \in Threads : pc'[t] = "failed" => pc[t] = "failed"]_vars
=============================================================================
