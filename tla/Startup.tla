------------------------------- MODULE Startup -------------------------------
(***************************************************************************)
(* How an instance of the service comes up and goes down: `python -m       *)
(* app.migrate && python -m uvicorn app.main:app` (Procfile), that is      *)
(* migrate of db.py and then the lifespan of main.py.  Instances of        *)
(* several releases overlap while one replaces the other, and any of them  *)
(* can be killed, or lose a store, at any point.                           *)
(*                                                                         *)
(* A migration is a number, its place in the sorted names.  PostgreSQL is  *)
(* external: what a transaction has done is seen when it commits, and of   *)
(* two that insert the same version the second waits for the first.        *)
(* The table schema_migrations is there: the first instance of the service *)
(* has made it.                                                            *)
(***************************************************************************)
EXTENDS Naturals, Sequences, FiniteSets

CONSTANTS
  Instances,
  Last,        \* the migrations of the newest release
  FilesOf,     \* the migrations of each instance's release
  MaxRestarts, \* restartPolicyMaxRetries of railway.json
  MaxFaults    \* kills and outages, a bound of the model

ASSUME StartupAssumption ==
  /\ Last \in Nat
  /\ FilesOf \in [Instances -> 0..Last]
  /\ MaxRestarts \in Nat
  /\ MaxFaults \in Nat

VARIABLES
  versions,   \* the rows of schema_migrations
  applied,    \* the migrations whose SQL took effect, in that order
  pc,         \* where each instance is
  existing,   \* versions it knows of: read at first, or applied by itself
  path,       \* the file it is at, 0 for none
  ready,      \* app.state.ready
  restarts,   \* failures of each instance, which the platform counts
  up,         \* the stores that answer
  kills,
  outages     \* so far, a bound of the model

schema   == <<versions, applied>>
instance == <<pc, existing, path, ready, restarts>>
outside  == <<up, kills, outages>>
startup  == <<schema, instance, outside>>

Stores    == {"db", "redis"}
Migrating == {"read", "next", "record", "commit"}

StartupTypeOK ==
  /\ versions \subseteq 1..Last
  /\ applied \in Seq(1..Last)
  /\ pc \in [Instances -> {"off", "boot", "ping", "serving", "stopping"} \cup Migrating]
  /\ existing \in [Instances -> SUBSET (1..Last)]
  /\ path \in [Instances -> 0..Last]
  /\ ready \in [Instances -> SUBSET (Stores \cup {"worker"})]
  /\ restarts \in [Instances -> 0..MaxRestarts + 1]
  /\ up \subseteq Stores
  /\ kills \in Nat /\ outages \in Nat /\ kills + outages <= MaxFaults

StartupInit ==
  /\ versions = {}
  /\ applied = <<>>
  /\ pc = [i \in Instances |-> "off"]
  /\ existing = [i \in Instances |-> {}]
  /\ path = [i \in Instances |-> 0]
  /\ ready = [i \in Instances |-> {}]
  /\ restarts = [i \in Instances |-> 0]
  /\ up = Stores
  /\ kills = 0 /\ outages = 0

-----------------------------------------------------------------------------
(* migrate *)

Goto(i, from, to) == pc[i] = from /\ pc' = [pc EXCEPT ![i] = to]

\* The process is gone, and with it what it had not committed.
Gone(i) ==
  /\ pc' = [pc EXCEPT ![i] = "off"]
  /\ existing' = [existing EXCEPT ![i] = {}]
  /\ path' = [path EXCEPT ![i] = 0]
  /\ ready' = [ready EXCEPT ![i] = {}]

\* ... after an error: restartPolicyType ON_FAILURE.
Fails(i) ==
  /\ Gone(i)
  /\ restarts' = [restarts EXCEPT ![i] = @ + 1]

Start(i) ==
  /\ restarts[i] <= MaxRestarts
  /\ Goto(i, "off", "read")
  /\ UNCHANGED <<existing, path, ready, restarts, schema, outside>>

\* Variant: what was applied before is not looked up.
ReadsNothing(i) ==
  /\ "db" \in up
  /\ Goto(i, "read", "next")
  /\ UNCHANGED <<existing, path, ready, restarts, schema, outside>>

\* SELECT version FROM schema_migrations, and the end of that transaction.
ReadVersions(i) ==
  /\ "db" \in up
  /\ Goto(i, "read", "next")
  /\ existing' = [existing EXCEPT ![i] = versions]
  /\ UNCHANGED <<path, ready, restarts, schema, outside>>

Missing(i) == (1..FilesOf[i]) \ existing[i]

FirstOf(S) == CHOOSE v \in S : \A w \in S : v <= w

\* Variant: the SQL is committed by itself.
RunsCommitted(i) ==
  /\ "db" \in up
  /\ Missing(i) # {}
  /\ Goto(i, "next", "record")
  /\ path' = [path EXCEPT ![i] = FirstOf(Missing(i))]
  /\ applied' = Append(applied, path'[i])
  /\ UNCHANGED <<versions, existing, ready, restarts, outside>>

\* The SQL of the first file whose version is not there, in a new transaction.
RunSql(i) ==
  /\ "db" \in up
  /\ Missing(i) # {}
  /\ Goto(i, "next", "record")
  /\ path' = [path EXCEPT ![i] = FirstOf(Missing(i))]
  /\ UNCHANGED <<existing, ready, restarts, schema, outside>>

\* Another transaction has recorded the version and is not committed.
Locked(v) == \E k \in Instances : pc[k] = "commit" /\ path[k] = v

\* INSERT INTO schema_migrations.
Record(i) ==
  /\ "db" \in up
  /\ path[i] \notin versions
  /\ ~Locked(path[i])
  /\ Goto(i, "record", "commit")
  /\ UNCHANGED <<existing, path, ready, restarts, schema, outside>>

\* Variant: the command line goes on after an error.
ServesAnyway(i) ==
  /\ path[i] \in versions
  /\ Goto(i, "record", "boot")
  /\ UNCHANGED <<existing, path, ready, restarts, schema, outside>>

\* Variant: the INSERT is tried again.
TriesAgain(i) ==
  /\ pc[i] = "record"
  /\ path[i] \in versions
  /\ UNCHANGED startup

\* ... violates the primary key (or the SQL before it has failed on what is
\* there already): the transaction is rolled back, and the process ends before
\* uvicorn is started.
Conflict(i) ==
  /\ pc[i] = "record"
  /\ path[i] \in versions
  /\ Fails(i)
  /\ UNCHANGED <<schema, outside>>

Commit(i) ==
  /\ "db" \in up
  /\ Goto(i, "commit", "next")
  /\ versions' = versions \cup {path[i]}
  /\ applied' = Append(applied, path[i])
  /\ existing' = [existing EXCEPT ![i] = @ \cup {path[i]}]
  /\ path' = [path EXCEPT ![i] = 0]
  /\ UNCHANGED <<ready, restarts, outside>>

\* The database does not answer: an exception, and the end of the process.
Unreachable(i) ==
  /\ pc[i] \in Migrating
  /\ "db" \notin up
  /\ Fails(i)
  /\ UNCHANGED <<schema, outside>>
-----------------------------------------------------------------------------
(* lifespan *)

Migrated(i) ==
  /\ Missing(i) = {}
  /\ Goto(i, "next", "boot")
  /\ UNCHANGED <<existing, path, ready, restarts, schema, outside>>

\* get_pool().check() and ping(), each of which may fail without consequence.
CheckDb(i) ==
  /\ Goto(i, "boot", "ping")
  /\ ready' = [ready EXCEPT ![i] = up \cap {"db"}]
  /\ UNCHANGED <<existing, path, restarts, schema, outside>>

\* The worker is started if both stores have answered, and never later.
Ping(i) ==
  /\ Goto(i, "ping", "serving")
  /\ ready' = [ready EXCEPT ![i] = LET r == @ \cup (up \cap {"redis"})
                                   IN  IF r = Stores THEN r \cup {"worker"} ELSE r]
  /\ UNCHANGED <<existing, path, restarts, schema, outside>>

Shutdown(i) ==
  /\ Goto(i, "serving", "stopping")
  /\ UNCHANGED <<existing, path, ready, restarts, schema, outside>>

\* stop_worker has returned, the connections are closed.
Exit(i) ==
  /\ pc[i] = "stopping"
  /\ Gone(i)
  /\ restarts' = [restarts EXCEPT ![i] = 0]
  /\ UNCHANGED <<schema, outside>>

\* Somebody deploys again what the platform has given up.
Deploy(i) ==
  /\ restarts[i] > MaxRestarts
  /\ restarts' = [restarts EXCEPT ![i] = 0]
  /\ UNCHANGED <<pc, existing, path, ready, schema, outside>>

Kill(i) ==
  /\ pc[i] # "off"
  /\ kills + outages < MaxFaults
  /\ kills' = kills + 1
  /\ Fails(i)
  /\ UNCHANGED <<schema, up, outages>>

Outage(s) ==
  /\ s \in up
  /\ kills + outages < MaxFaults
  /\ outages' = outages + 1
  /\ up' = up \ {s}
  /\ UNCHANGED <<schema, instance, kills>>

Restored(s) ==
  /\ s \notin up
  /\ up' = up \cup {s}
  /\ UNCHANGED <<schema, instance, kills, outages>>

\* The workers that run, and those among them that still take jobs.
Working == {i \in Instances : pc[i] \in {"serving", "stopping"} /\ "worker" \in ready[i]}
Taking  == {i \in Working : pc[i] = "serving"}

ComesUp(i) ==
  \/ Start(i) \/ ReadVersions(i) \/ RunSql(i) \/ Record(i) \/ Conflict(i) \/ Commit(i)
  \/ Unreachable(i) \/ Migrated(i) \/ CheckDb(i) \/ Ping(i) \/ Shutdown(i)

Ends(i) == Exit(i) \/ Kill(i)

Environment ==
  \/ \E s \in Stores : Outage(s) \/ Restored(s)
  \/ \E i \in Instances : Deploy(i)

StartupNext == (\E i \in Instances : ComesUp(i) \/ Ends(i)) \/ Environment

StartupSpec == StartupInit /\ [][StartupNext]_startup
-----------------------------------------------------------------------------
\* Every migration takes effect once and in order, with its row, although
\* instances migrate at the same time, from a list of versions that may be
\* old by then, and can be killed between any two statements.
SchemaInOrder ==
  /\ applied = [k \in 1..Len(applied) |-> k]
  /\ versions = 1..Len(applied)

\* No request meets a database that is older than the release: a conflict or
\* a failure ends the process before uvicorn.
ServesMigrated ==
  \A i \in Instances :
    pc[i] \in {"boot", "ping", "serving", "stopping"} => 1..FilesOf[i] \subseteq versions

\* Without an outage an instance fails at most once for each migration that took
\* effect and for each kill, however the migrations of several instances collide.
\* So MaxRestarts are enough for a release that brings no more migrations than
\* that; with more, collisions alone can use them up.
FailsOncePerVersion ==
  outages = 0 => \A i \in Instances : restarts[i] <= Len(applied) + kills

\* The migrations implement the schema that goes through its versions.
S == INSTANCE Schema WITH level <- Len(applied)
ImplementsSchema == S!Spec
=============================================================================
