---------------------------- MODULE StartupProofs ----------------------------
(***************************************************************************)
(* What holds of the database and of the restarts, for every set of        *)
(* instances, releases and faults, and whatever the workers of those       *)
(* instances do: the steps of Webhooks are steps of Startup or leave its   *)
(* variables alone.  Then the list of deliveries, which those workers fill *)
(* and empty while stores go away and instances are killed, and its bound  *)
(* for any number of instances, tasks and outages.                         *)
(***************************************************************************)
EXTENDS Webhooks, FiniteSetTheorems, TLAPS

\* What an instance that migrates knows is the first n versions, and it has
\* failed at most as often; the file it is at is the next one.  What is about
\* to be committed comes after the last version.
Knows(i, n) ==
  /\ existing[i] = 1..n
  /\ pc[i] \in {"record", "commit"} => path[i] = n + 1 /\ n + 1 <= FilesOf[i]
  /\ pc[i] = "commit" => n = Len(applied)
  /\ outages = 0 /\ pc[i] \in {"next", "record", "commit"} => restarts[i] <= n + kills

Progress(i) == \E n \in 0..Len(applied) : Knows(i, n)

\* Nobody else is about to commit.
OneCommits == \A i, k \in Instances : pc[i] = "commit" /\ pc[k] = "commit" => i = k

Inv ==
  /\ StartupTypeOK
  /\ SchemaInOrder
  /\ ServesMigrated
  /\ FailsOncePerVersion
  /\ OneCommits
  /\ outages = 0 => up = Stores
  /\ \A i \in Instances : pc[i] # "off" => restarts[i] <= MaxRestarts
  /\ \A i \in Instances : Progress(i)

\* Every step of the service is one of Startup, or none.
LEMMA StepsOfStartup == ASSUME [Next]_vars PROVE [StartupNext]_startup
<1>1. CASE (\E i \in Instances : ComesUp(i)) /\ UNCHANGED deliveries
  BY <1>1 DEF StartupNext
<1>2. CASE \E i \in Instances : Ends(i) /\ Die(i)
  BY <1>2 DEF StartupNext
<1>3. CASE Environment /\ UNCHANGED deliveries
  BY <1>3 DEF StartupNext
<1>4. CASE Delivers
  BY <1>4 DEF Delivers, Loop, Pop, Take, Lookup, StoreError, Spawn, TakeAgain, FindEndpoint,
     QueueDelivery, QueueAgain, Disable
<1>5. CASE UNCHANGED vars
  BY <1>5 DEF vars
<1>6. QED
  BY <1>1, <1>2, <1>3, <1>4, <1>5 DEF Next

\* The next file is the one after the versions that are known.
LEMMA NextFile ==
  ASSUME StartupTypeOK, NEW i \in Instances, NEW n \in Nat, existing[i] = 1..n, Missing(i) # {}
  PROVE  FirstOf(Missing(i)) = n + 1 /\ n + 1 <= FilesOf[i]
<1>1. FilesOf[i] \in Nat
  BY StartupAssumption
<1>2. Missing(i) = {v \in 1..FilesOf[i] : v > n}
  BY <1>1 DEF Missing
<1>3. n + 1 <= FilesOf[i]
  BY <1>1, <1>2
<1>4. n + 1 \in Missing(i) /\ \A w \in Missing(i) : n + 1 <= w
  BY <1>1, <1>2, <1>3
<1>5. FirstOf(Missing(i)) \in Missing(i) /\ \A w \in Missing(i) : FirstOf(Missing(i)) <= w
  BY <1>4 DEF FirstOf
<1>6. FirstOf(Missing(i)) \in Nat
  BY <1>1, <1>2, <1>5
<1>7. QED
  BY <1>3, <1>4, <1>5, <1>6

\* An instance that runs can fail once more.
LEMMA RunningCounts ==
  ASSUME Inv, NEW i \in Instances, pc[i] # "off"
  PROVE  restarts[i] + 1 \in 0..MaxRestarts + 1
<1>1. restarts[i] \in 0..MaxRestarts + 1 /\ restarts[i] <= MaxRestarts
  BY DEF Inv, StartupTypeOK
<1>2. QED
  BY <1>1, StartupAssumption

\* The variables keep their types.
LEMMA StartupTypes ==
  ASSUME Inv, [StartupNext]_startup
  PROVE  StartupTypeOK'
<1> USE StartupAssumption DEF Inv, StartupTypeOK, Stores, Migrating
<1>1. ASSUME NEW i \in Instances, ComesUp(i)
      PROVE  StartupTypeOK'
  <2> USE DEF Goto, Gone, Fails, outside, schema
  <2>1. CASE Start(i) BY <2>1 DEF Start
  <2>2. CASE ReadVersions(i) BY <2>2 DEF ReadVersions
  <2>3. CASE RunSql(i)
    <3>1. PICK n \in 0..Len(applied) : existing[i] = 1..n
      BY DEF Progress, Knows
    <3>2. n \in Nat /\ Missing(i) # {} /\ path' = [path EXCEPT ![i] = FirstOf(Missing(i))]
      BY <2>3 DEF RunSql
    <3>3. FirstOf(Missing(i)) = n + 1 /\ n + 1 <= FilesOf[i]
      BY <3>1, <3>2, NextFile
    <3>4. n + 1 \in 0..Last
      BY <3>2, <3>3
    <3>5. QED
      BY <2>3, <3>2, <3>3, <3>4 DEF RunSql
  <2>4. CASE Record(i) BY <2>4 DEF Record
  <2>5. CASE Conflict(i)
    <3>1. restarts[i] + 1 \in 0..MaxRestarts + 1
      BY <2>5, RunningCounts DEF Conflict
    <3>2. restarts' \in [Instances -> 0..MaxRestarts + 1]
      BY <2>5, <3>1 DEF Conflict
    <3>3. /\ pc' \in [Instances -> {"off", "boot", "ping", "serving", "stopping"} \cup Migrating]
          /\ existing' \in [Instances -> SUBSET (1..Last)] /\ path' \in [Instances -> 0..Last]
          /\ ready' \in [Instances -> SUBSET (Stores \cup {"worker"})]
      BY <2>5 DEF Conflict
    <3>4. QED
      BY <2>5, <3>2, <3>3 DEF Conflict
  <2>6. CASE Commit(i)
    <3>1. path[i] \in 1..Last
      BY <2>6 DEF Commit, Progress, Knows
    <3>2. applied' \in Seq(1..Last)
      BY <2>6, <3>1 DEF Commit
    <3>3. versions' \subseteq 1..Last
      BY <2>6, <3>1 DEF Commit
    <3>4. existing' \in [Instances -> SUBSET (1..Last)]
      BY <2>6, <3>1 DEF Commit
    <3>5. QED
      BY <2>6, <3>2, <3>3, <3>4 DEF Commit
  <2>7. CASE Unreachable(i)
    <3>1. restarts[i] + 1 \in 0..MaxRestarts + 1
      BY <2>7, RunningCounts DEF Unreachable
    <3>2. restarts' \in [Instances -> 0..MaxRestarts + 1]
      BY <2>7, <3>1 DEF Unreachable
    <3>3. /\ pc' \in [Instances -> {"off", "boot", "ping", "serving", "stopping"} \cup Migrating]
          /\ existing' \in [Instances -> SUBSET (1..Last)] /\ path' \in [Instances -> 0..Last]
          /\ ready' \in [Instances -> SUBSET (Stores \cup {"worker"})]
      BY <2>7 DEF Unreachable
    <3>4. QED
      BY <2>7, <3>2, <3>3 DEF Unreachable
  <2>8. CASE Migrated(i) BY <2>8 DEF Migrated
  <2>9. CASE CheckDb(i) BY <2>9 DEF CheckDb
  <2>10. CASE Ping(i) BY <2>10 DEF Ping
  <2>11. CASE Shutdown(i) BY <2>11 DEF Shutdown
  <2>12. QED
    BY <1>1, <2>1, <2>2, <2>3, <2>4, <2>5, <2>6, <2>7, <2>8, <2>9, <2>10, <2>11 DEF ComesUp
<1>2. ASSUME NEW i \in Instances, Exit(i)
      PROVE  StartupTypeOK'
  BY <1>2 DEF Exit, Gone, outside, schema
<1>3. ASSUME NEW i \in Instances, Kill(i)
      PROVE  StartupTypeOK'
  BY <1>3 DEF Kill, Fails, Gone, outside, schema
<1>4. CASE Environment
  <2> USE DEF schema, instance, outside
  <2>1. ASSUME NEW s \in Stores, Outage(s) \/ Restored(s)
        PROVE  StartupTypeOK'
    <3>1. up' \subseteq Stores
      BY <2>1 DEF Outage, Restored
    <3>2. kills' \in Nat /\ outages' \in Nat /\ kills' + outages' <= MaxFaults
      BY <2>1 DEF Outage, Restored
    <3>3. UNCHANGED <<versions, applied, pc, existing, path, ready, restarts>>
      BY <2>1 DEF Outage, Restored
    <3>4. QED
      BY <3>1, <3>2, <3>3
  <2>2. ASSUME NEW i \in Instances, Deploy(i)
        PROVE  StartupTypeOK'
    BY <2>2 DEF Deploy
  <2>3. QED
    BY <1>4, <2>1, <2>2 DEF Environment
<1>5. CASE UNCHANGED startup
  BY <1>5 DEF startup, schema, instance, outside
<1>6. QED
  BY <1>1, <1>2, <1>3, <1>4, <1>5 DEF StartupNext, Ends

\* Instances that a step leaves alone keep what they know.
LEMMA OthersKnow ==
  ASSUME Inv, NEW k \in Instances,
         pc'[k] = pc[k], existing'[k] = existing[k], path'[k] = path[k], restarts'[k] = restarts[k],
         Len(applied') \in {Len(applied), Len(applied) + 1},
         Len(applied') # Len(applied) => pc[k] # "commit",
         kills' \in Nat, kills' >= kills, outages' = 0 => outages = 0
  PROVE  Progress(k)'
<1> USE DEF Inv, StartupTypeOK
<1>1. PICK n \in 0..Len(applied) : Knows(k, n)
  BY DEF Progress
<1>2. n \in 0..Len(applied')
  OBVIOUS
<1>3. Knows(k, n)'
  BY <1>1 DEF Knows
<1>4. QED
  BY <1>2, <1>3 DEF Progress
\* A step of one instance that commits nothing.
LEMMA InstanceStep ==
  ASSUME Inv, StartupTypeOK', NEW i \in Instances, schema' = schema, up' = up,
         outages' = outages, kills' \in Nat, kills' >= kills,
         \A k \in Instances \ {i} : /\ pc'[k] = pc[k] /\ existing'[k] = existing[k]
                                   /\ path'[k] = path[k] /\ restarts'[k] = restarts[k],
         pc'[i] \in {"boot", "ping", "serving", "stopping"} => 1..FilesOf[i] \subseteq versions,
         pc'[i] = "commit" => \A k \in Instances : pc[k] # "commit",
         outages = 0 => restarts'[i] <= Len(applied) + kills',
         pc'[i] # "off" => restarts'[i] <= MaxRestarts,
         Progress(i)'
  PROVE  Inv'
<1> USE DEF Inv, schema
<1>1. SchemaInOrder' /\ ServesMigrated'
  BY DEF SchemaInOrder, ServesMigrated
<1>2. OneCommits'
  BY DEF OneCommits
<1>3. FailsOncePerVersion'
  <2>1. SUFFICES ASSUME outages = 0, NEW k \in Instances
                 PROVE  restarts'[k] <= Len(applied) + kills'
    BY DEF FailsOncePerVersion
  <2>2. CASE k = i
    BY <2>1, <2>2
  <2>3. CASE k # i
    <3>1. restarts'[k] = restarts[k] /\ restarts[k] <= Len(applied) + kills
      BY <2>1, <2>3 DEF FailsOncePerVersion
    <3>2. restarts[k] \in Nat /\ Len(applied) \in Nat /\ kills \in Nat
      BY StartupAssumption DEF StartupTypeOK
    <3>3. QED
      BY <3>1, <3>2
  <2>4. QED
    BY <2>2, <2>3
<1>4. ASSUME NEW k \in Instances
      PROVE  Progress(k)'
  <2>1. CASE k = i
    BY <2>1
  <2>2. CASE k # i
    <3>1. Len(applied') = Len(applied)
      OBVIOUS
    <3>2. /\ pc'[k] = pc[k] /\ existing'[k] = existing[k]
          /\ path'[k] = path[k] /\ restarts'[k] = restarts[k]
      BY <2>2
    <3>3. outages' = outages
      OBVIOUS
    <3>4. QED
      BY <3>1, <3>2, <3>3, OthersKnow
  <2>3. QED
    BY <2>1, <2>2
<1>5. \A k \in Instances : pc'[k] # "off" => restarts'[k] <= MaxRestarts
  OBVIOUS
<1>6. QED
  BY <1>1, <1>2, <1>3, <1>4, <1>5

\* The step that commits: the version is the one after the last.
LEMMA CommitStep ==
  ASSUME Inv, StartupTypeOK', NEW i \in Instances, Commit(i)
  PROVE  Inv'
<1> USE StartupAssumption DEF Commit, Goto, outside
<1>0. PICK n \in Nat : n = Len(applied)
  BY DEF Inv, StartupTypeOK
<1>1. /\ n = Len(applied) /\ path[i] = n + 1 /\ existing[i] = 1..n /\ n + 1 <= FilesOf[i]
      /\ outages = 0 => restarts[i] <= n + kills
  BY <1>0 DEF Inv, StartupTypeOK, Progress, Knows
<1>2. /\ Len(applied') = n + 1 /\ applied'[n + 1] = n + 1
      /\ \A k \in 1..n : applied'[k] = applied[k]
  BY <1>1 DEF Inv, StartupTypeOK
<1>3. versions' = 1..n + 1
  BY <1>1 DEF Inv, SchemaInOrder
<1>4. SchemaInOrder'
  <2>1. \A k \in 1..n : applied[k] = k
    BY <1>1 DEF Inv, SchemaInOrder
  <2>2. applied' \in Seq(1..Last) /\ DOMAIN applied' = 1..n + 1
    BY <1>1, <1>2 DEF StartupTypeOK
  <2>3. \A k \in 1..n + 1 : applied'[k] = k
    BY <1>1, <1>2, <2>1
  <2>4. applied' = [k \in 1..n + 1 |-> k]
    BY <2>2, <2>3
  <2>5. QED
    BY <1>1, <1>2, <1>3, <2>4 DEF SchemaInOrder
<1>5. /\ pc[i] = "commit" /\ pc'[i] = "next" /\ pc' = [pc EXCEPT ![i] = "next"]
      /\ \A k \in Instances \ {i} : pc'[k] = pc[k]
  BY DEF Inv, StartupTypeOK
<1>6. ServesMigrated'
  BY <1>5 DEF Inv, ServesMigrated
<1>7. OneCommits'
  BY <1>5 DEF Inv, OneCommits
<1>8. FailsOncePerVersion'
  BY <1>1, <1>2 DEF Inv, StartupTypeOK, FailsOncePerVersion
<1>9. ASSUME NEW k \in Instances
      PROVE  Progress(k)'
  <2>1. CASE k = i
    <3>1. existing'[i] = 1..n + 1
      BY <1>1 DEF Inv, StartupTypeOK
    <3>2. outages' = 0 => restarts'[i] <= n + 1 + kills'
      BY <1>1 DEF Inv, StartupTypeOK
    <3>3. Knows(i, n + 1)'
      BY <1>2, <1>5, <3>1, <3>2 DEF Knows
    <3>4. QED
      BY <1>1, <1>2, <2>1, <3>3 DEF Progress
  <2>2. CASE k # i
    <3>1. /\ pc'[k] = pc[k] /\ existing'[k] = existing[k] /\ path'[k] = path[k]
          /\ restarts'[k] = restarts[k] /\ pc[k] # "commit"
      BY <1>5, <2>2 DEF Inv, StartupTypeOK, OneCommits
    <3>2. kills' \in Nat /\ kills' >= kills /\ outages' = outages
      BY DEF Inv, StartupTypeOK
    <3>3. QED
      BY <1>2, <3>1, <3>2, OthersKnow
  <2>3. QED
    BY <2>1, <2>2
<1>10. \A k \in Instances : pc'[k] # "off" => restarts'[k] <= MaxRestarts
  BY <1>5 DEF Inv
<1>11. QED
  BY <1>4, <1>6, <1>7, <1>8, <1>9, <1>10 DEF Inv
\* A step that ends an instance knows nothing any more.
LEMMA GoneStep ==
  ASSUME Inv, StartupTypeOK', NEW i \in Instances, Gone(i), schema' = schema, up' = up,
         outages' = outages, kills' \in Nat, kills' >= kills,
         \A k \in Instances \ {i} : restarts'[k] = restarts[k],
         outages = 0 => restarts'[i] <= Len(applied) + kills'
  PROVE  Inv'
<1>1. /\ pc'[i] = "off" /\ existing'[i] = {}
      /\ \A k \in Instances \ {i} : pc'[k] = pc[k] /\ existing'[k] = existing[k] /\ path'[k] = path[k]
  BY DEF Inv, StartupTypeOK, Gone
<1>2. Knows(i, 0)'
  BY <1>1 DEF Knows
<1>3. Progress(i)'
  BY <1>2 DEF Inv, StartupTypeOK, Progress, schema
<1>4. QED
  BY <1>1, <1>3, InstanceStep

\* ... and one that fails has used up one restart.
LEMMA FailStep ==
  ASSUME Inv, StartupTypeOK', NEW i \in Instances, Fails(i), schema' = schema, up' = up,
         outages' = outages, kills' \in Nat, kills' >= kills,
         outages = 0 => restarts[i] + 1 <= Len(applied) + kills'
  PROVE  Inv'
<1>1. restarts'[i] = restarts[i] + 1 /\ \A k \in Instances \ {i} : restarts'[k] = restarts[k]
  BY DEF Inv, StartupTypeOK, Fails
<1>2. QED
  BY <1>1, GoneStep DEF Fails

\* An instance that comes up.
LEMMA ComesUpStep ==
  ASSUME Inv, StartupTypeOK', NEW i \in Instances, ComesUp(i)
  PROVE  Inv'
<1> USE StartupAssumption
<1>1. PICK n \in 0..Len(applied) : Knows(i, n)
  BY DEF Inv, Progress
<1>2. /\ restarts[i] \in Nat /\ kills \in Nat /\ n \in Nat /\ Len(applied) \in Nat
      /\ outages = 0 => restarts[i] <= Len(applied) + kills
      /\ pc[i] # "off" => restarts[i] <= MaxRestarts
      /\ outages = 0 => up = Stores
      /\ versions = 1..Len(applied)
  BY DEF Inv, StartupTypeOK, FailsOncePerVersion, SchemaInOrder
<1> DEFINE Moves(to) ==
             /\ pc' = [pc EXCEPT ![i] = to]
             /\ existing' = existing /\ restarts' = restarts
             /\ schema' = schema /\ outside' = outside
<1>3. ASSUME NEW to \in {"read", "next", "record", "commit", "boot", "ping", "serving", "stopping"}, Moves(to),
             pc[i] = "off" => restarts[i] <= MaxRestarts,
             to \in {"boot", "ping", "serving", "stopping"} => 1..FilesOf[i] \subseteq versions,
             to = "commit" => \A k \in Instances : pc[k] # "commit",
             \A k \in Instances \ {i} : path'[k] = path[k],
             Knows(i, n)'
      PROVE  Inv'
  <2>1. /\ pc'[i] = to /\ restarts'[i] = restarts[i] /\ up' = up /\ outages' = outages /\ kills' = kills
        /\ \A k \in Instances \ {i} : pc'[k] = pc[k] /\ existing'[k] = existing[k] /\ restarts'[k] = restarts[k]
    BY <1>3 DEF Inv, StartupTypeOK, outside
  <2>2. Progress(i)'
    BY <1>3 DEF Progress, schema
  <2>3. QED
    BY <1>2, <1>3, <2>1, <2>2, InstanceStep
<1>4. CASE Start(i)
  <2>1. Moves("read") /\ restarts[i] <= MaxRestarts /\ path' = path
    BY <1>4 DEF Start, Goto, schema, outside
  <2>2. Knows(i, n)'
    BY <1>1, <2>1 DEF Knows, Inv, StartupTypeOK, schema, outside
  <2>3. QED
    BY <1>3, <2>1, <2>2
<1>5. CASE RunSql(i)
  <2>1. Moves("record") /\ pc[i] = "next" /\ Missing(i) # {} /\ path' = [path EXCEPT ![i] = FirstOf(Missing(i))]
    BY <1>5 DEF RunSql, Goto, schema, outside
  <2>2. FirstOf(Missing(i)) = n + 1 /\ n + 1 <= FilesOf[i]
    BY <1>1, <1>2, <2>1, NextFile DEF Inv, Knows
  <2>3. path'[i] = n + 1 /\ \A k \in Instances \ {i} : path'[k] = path[k]
    BY <2>1, <2>2 DEF Inv, StartupTypeOK
  <2>4. Knows(i, n)'
    BY <1>1, <2>1, <2>2, <2>3 DEF Knows, Inv, StartupTypeOK, schema, outside
  <2>5. QED
    BY <1>2, <1>3, <2>1, <2>3, <2>4
<1>6. CASE Record(i)
  <2>1. Moves("commit") /\ pc[i] = "record" /\ path' = path /\ path[i] \notin versions /\ ~Locked(path[i])
    BY <1>6 DEF Record, Goto, schema, outside
  <2>2. path[i] = n + 1 /\ n = Len(applied)
    BY <1>1, <1>2, <2>1 DEF Knows
  <2>3. \A k \in Instances : pc[k] # "commit"
    <3>1. ASSUME NEW k \in Instances, pc[k] = "commit"
          PROVE  path[k] = Len(applied) + 1
      BY <3>1, <1>2 DEF Inv, Progress, Knows
    <3>2. QED
      BY <2>1, <2>2, <3>1 DEF Locked
  <2>4. Knows(i, n)'
    BY <1>1, <2>1, <2>2 DEF Knows, Inv, StartupTypeOK, schema, outside
  <2>5. QED
    BY <1>2, <1>3, <2>1, <2>3, <2>4
<1>7. CASE Commit(i)
  BY <1>7, CommitStep
<1>8. CASE Migrated(i)
  <2>1. Moves("boot") /\ pc[i] = "next" /\ Missing(i) = {} /\ path' = path
    BY <1>8 DEF Migrated, Goto, schema, outside
  <2>2. 1..FilesOf[i] \subseteq versions
    BY <1>1, <1>2, <2>1 DEF Missing, Knows
  <2>3. Knows(i, n)'
    BY <1>1, <2>1 DEF Knows, Inv, StartupTypeOK, schema, outside
  <2>4. QED
    BY <1>2, <1>3, <2>1, <2>2, <2>3
<1>9. CASE CheckDb(i) \/ Ping(i) \/ Shutdown(i)
  <2>1. PICK to \in {"ping", "serving", "stopping"} : Moves(to)
    BY <1>9 DEF CheckDb, Ping, Shutdown, Goto, schema, outside
  <2>2. pc[i] \in {"boot", "ping", "serving"} /\ path' = path
    BY <1>9 DEF CheckDb, Ping, Shutdown, Goto
  <2>3. 1..FilesOf[i] \subseteq versions
    BY <2>2 DEF Inv, ServesMigrated
  <2>4. Knows(i, n)'
    BY <1>1, <2>1, <2>2 DEF Knows, Inv, StartupTypeOK, schema, outside
  <2>5. QED
    BY <1>2, <1>3, <2>1, <2>2, <2>3, <2>4
<1>10. CASE ReadVersions(i)
  <2>1. /\ pc' = [pc EXCEPT ![i] = "next"] /\ pc[i] = "read" /\ existing' = [existing EXCEPT ![i] = versions]
        /\ restarts' = restarts /\ path' = path /\ schema' = schema /\ outside' = outside
    BY <1>10 DEF ReadVersions, Goto, schema, outside
  <2>2. /\ pc'[i] = "next" /\ existing'[i] = versions /\ up' = up /\ outages' = outages /\ kills' = kills
        /\ \A k \in Instances \ {i} : /\ pc'[k] = pc[k] /\ existing'[k] = existing[k]
                                     /\ path'[k] = path[k] /\ restarts'[k] = restarts[k]
    BY <2>1 DEF Inv, StartupTypeOK, outside
  <2>3. \A m \in Nat : m = Len(applied) => Knows(i, m)'
    BY <1>2, <2>1, <2>2 DEF Knows, schema
  <2>4. Progress(i)'
    BY <1>2, <2>1, <2>3 DEF Progress, schema
  <2>5. QED
    BY <1>2, <2>1, <2>2, <2>4, InstanceStep
<1>11. CASE Conflict(i) \/ Unreachable(i)
  <2>1. Fails(i) /\ schema' = schema /\ outside' = outside /\ pc[i] # "off"
    BY <1>11 DEF Conflict, Unreachable, Migrating
  <2>2. outages = 0 => restarts[i] + 1 <= Len(applied) + kills
    <3>1. CASE Conflict(i)
      BY <1>1, <1>2, <3>1 DEF Conflict, Knows
    <3>2. CASE Unreachable(i)
      BY <1>2, <3>2 DEF Unreachable, Stores
    <3>3. QED
      BY <1>11, <3>1, <3>2
  <2>3. kills' = kills /\ kills' \in Nat /\ kills' >= kills /\ up' = up /\ outages' = outages
    BY <1>2, <2>1 DEF outside
  <2>4. QED
    BY <1>2, <2>1, <2>2, <2>3, FailStep
<1>12. QED
  BY <1>4, <1>5, <1>6, <1>7, <1>8, <1>9, <1>10, <1>11 DEF ComesUp
\* The invariant is inductive.
LEMMA InvKept == Inv /\ [StartupNext]_startup => Inv'
<1> SUFFICES ASSUME Inv, [StartupNext]_startup PROVE Inv'
  OBVIOUS
<1>1. StartupTypeOK'
  BY StartupTypes
<1>2. ASSUME NEW i \in Instances, ComesUp(i) PROVE Inv'
  BY <1>1, <1>2, ComesUpStep
<1>3. ASSUME NEW i \in Instances, Exit(i) PROVE Inv'
  <2>1. restarts'[i] = 0 /\ \A k \in Instances \ {i} : restarts'[k] = restarts[k]
    BY <1>3 DEF Exit, Inv, StartupTypeOK
  <2>2. Gone(i) /\ schema' = schema /\ up' = up /\ outages' = outages /\ kills' = kills
    BY <1>3 DEF Exit, outside
  <2>3. 0 <= Len(applied) + kills' /\ kills' \in Nat /\ kills' >= kills
    BY <2>2 DEF Inv, StartupTypeOK
  <2>4. QED
    BY <1>1, <2>1, <2>2, <2>3, GoneStep
<1>4. ASSUME NEW i \in Instances, Kill(i) PROVE Inv'
  <2>1. Fails(i) /\ schema' = schema /\ up' = up /\ outages' = outages /\ kills' = kills + 1
    BY <1>4 DEF Kill, schema
  <2>2. kills' \in Nat /\ kills' >= kills
    BY <2>1 DEF Inv, StartupTypeOK
  <2>3. outages = 0 => restarts[i] + 1 <= Len(applied) + kills'
    BY <2>1 DEF Inv, StartupTypeOK, FailsOncePerVersion
  <2>4. QED
    BY <1>1, <2>1, <2>2, <2>3, FailStep
<1>5. ASSUME NEW s \in Stores, Outage(s) \/ Restored(s) PROVE Inv'
  <2>1. UNCHANGED <<versions, applied, pc, existing, path, ready, restarts>> /\ kills' = kills
    BY <1>5 DEF Outage, Restored, schema, instance
  <2>2. outages' \in Nat /\ (outages' = 0 => outages = 0 /\ up' = Stores)
    BY <1>5 DEF Outage, Restored, Inv, StartupTypeOK
  <2>3. SchemaInOrder' /\ ServesMigrated' /\ OneCommits' /\ FailsOncePerVersion'
    BY <2>1, <2>2 DEF Inv, SchemaInOrder, ServesMigrated, OneCommits, FailsOncePerVersion
  <2>4. ASSUME NEW k \in Instances PROVE Progress(k)'
    BY <2>1, <2>2 DEF Inv, Progress, Knows
  <2>5. QED
    BY <1>1, <2>1, <2>2, <2>3, <2>4 DEF Inv
<1>6. ASSUME NEW i \in Instances, Deploy(i) PROVE Inv'
  <2>1. /\ restarts'[i] = 0 /\ \A k \in Instances \ {i} : restarts'[k] = restarts[k]
        /\ UNCHANGED <<versions, applied, pc, existing, path, ready, up, kills, outages>>
    BY <1>6 DEF Deploy, schema, outside, Inv, StartupTypeOK
  <2>2. SchemaInOrder' /\ ServesMigrated' /\ OneCommits'
    BY <2>1 DEF Inv, SchemaInOrder, ServesMigrated, OneCommits
  <2>3. FailsOncePerVersion'
    <3>1. SUFFICES ASSUME outages = 0, NEW k \in Instances
                   PROVE  restarts'[k] <= Len(applied) + kills
      BY <2>1 DEF FailsOncePerVersion
    <3>2. Len(applied) \in Nat /\ kills \in Nat /\ restarts[k] <= Len(applied) + kills
      BY <3>1 DEF Inv, StartupTypeOK, FailsOncePerVersion
    <3>3. QED
      BY <2>1, <3>2
  <2>4. ASSUME NEW k \in Instances PROVE Progress(k)'
    <3>1. PICK n \in 0..Len(applied) : Knows(k, n)
      BY DEF Inv, Progress
    <3>2. Knows(k, n)'
      BY <2>1, <3>1 DEF Inv, StartupTypeOK, Knows
    <3>3. QED
      BY <2>1, <3>2 DEF Progress
  <2>5. \A k \in Instances : pc'[k] # "off" => restarts'[k] <= MaxRestarts
    BY <2>1, StartupAssumption DEF Inv
  <2>6. QED
    BY <1>1, <2>1, <2>2, <2>3, <2>4, <2>5 DEF Inv
<1>7. CASE UNCHANGED startup
  BY <1>1, <1>7 DEF startup, schema, instance, outside, Inv, SchemaInOrder, ServesMigrated,
     OneCommits, FailsOncePerVersion, Progress, Knows
<1>8. QED
  BY <1>2, <1>3, <1>4, <1>5, <1>6, <1>7 DEF StartupNext, Ends, Environment

\* An empty database, and nobody there.
LEMMA InvAtFirst == Init => Inv
<1> SUFFICES ASSUME Init PROVE Inv
  OBVIOUS
<1> USE StartupAssumption DEF Init, StartupInit
<1>1. StartupTypeOK
  BY DEF StartupTypeOK, Migrating
<1>2. SchemaInOrder /\ ServesMigrated /\ OneCommits
  BY DEF SchemaInOrder, ServesMigrated, OneCommits
<1>3. FailsOncePerVersion
  BY DEF FailsOncePerVersion
<1>4. ASSUME NEW i \in Instances PROVE Progress(i)
  <2>1. Knows(i, 0)
    BY DEF Knows
  <2>2. QED
    BY <2>1 DEF Progress
<1>5. QED
  BY <1>1, <1>2, <1>3, <1>4 DEF Inv

\* The database and the instances keep their types.
THEOREM InvHolds == Spec => []Inv
<1>1. Inv /\ [Next]_vars => Inv'
  BY InvKept, StepsOfStartup
<1>2. QED
  BY <1>1, InvAtFirst, PTL DEF Spec

\* migrate: for any number of instances and releases, each migration takes
\* effect once, in order and together with its row.
THEOREM MigrationsInOrder == Spec => []SchemaInOrder
<1>1. Inv => SchemaInOrder
  BY DEF Inv
<1>2. QED
  BY <1>1, InvHolds, PTL

\* Procfile: an instance serves only with its migrations in the database.
THEOREM MigratedFirst == Spec => []ServesMigrated
<1>1. Inv => ServesMigrated
  BY DEF Inv
<1>2. QED
  BY <1>1, InvHolds, PTL

\* Without an outage an instance fails at most once for each migration that took
\* effect and for each kill, however many others migrate at the same time.
THEOREM FailuresCounted == Spec => []FailsOncePerVersion
<1>1. Inv => FailsOncePerVersion
  BY DEF Inv
<1>2. QED
  BY <1>1, InvHolds, PTL

\* railway.json: the restarts suffice without an outage if there are no fewer of
\* them than migrations and kills.  That is a condition on the release: three
\* restarts are fewer than seven files.
THEOREM RestartsSuffice ==
  ASSUME Last + MaxFaults <= MaxRestarts
  PROVE  Spec => [](outages = 0 => \A i \in Instances : restarts[i] <= MaxRestarts)
<1>1. Inv => (outages = 0 => \A i \in Instances : restarts[i] <= MaxRestarts)
  <2> SUFFICES ASSUME Inv, outages = 0, NEW i \in Instances
               PROVE  restarts[i] <= MaxRestarts
    OBVIOUS
  <2>1. restarts[i] \in Nat /\ kills \in Nat /\ outages \in Nat /\ kills + outages <= MaxFaults
    BY StartupAssumption DEF Inv, StartupTypeOK
  <2>2. restarts[i] <= Len(applied) + kills
    BY DEF Inv, FailsOncePerVersion
  <2>3. Len(applied) \in Nat /\ Len(applied) <= Last
    <3>1. applied \in Seq(1..Last) /\ applied = [k \in 1..Len(applied) |-> k]
      BY DEF Inv, StartupTypeOK, SchemaInOrder
    <3>2. CASE Len(applied) = 0
      BY <3>2, StartupAssumption
    <3>3. CASE Len(applied) > 0
      <4>1. Len(applied) \in 1..Len(applied) /\ Len(applied) \in Nat
        BY <3>1, <3>3
      <4>2. applied[Len(applied)] = Len(applied) /\ applied[Len(applied)] \in 1..Last
        <5>1. ASSUME NEW k \in 1..Len(applied)
              PROVE  applied[k] = k /\ applied[k] \in 1..Last
          <6>1. applied[k] \in 1..Last
            <7> DEFINE V == 1..Last
            <7>1. applied \in Seq(V)
              BY <3>1
            <7> HIDE DEF V
            <7>2. applied[k] \in V
              BY <7>1
            <7>3. QED
              BY <7>2 DEF V
          <6>2. [j \in 1..Len(applied) |-> j][k] = k
            OBVIOUS
          <6>3. applied[k] = [j \in 1..Len(applied) |-> j][k]
            BY <3>1, Zenon
          <6>4. QED
            BY <6>1, <6>2, <6>3, Zenon
        <5>2. QED
          BY <4>1, <5>1
      <4>3. QED
        BY <4>1, <4>2, StartupAssumption
    <3>4. QED
      BY <3>1, <3>2, <3>3
  <2>4. QED
    BY <2>1, <2>2, <2>3, StartupAssumption
<1>2. QED
  BY <1>1, InvHolds, PTL

\* A step of the service changes the level of the schema by one, or not at all.
LEMMA LevelSteps == Inv /\ Inv' /\ [StartupNext]_startup => [S!Next]_(Len(applied))
<1> SUFFICES ASSUME Inv, Inv', [StartupNext]_startup, Len(applied') # Len(applied)
             PROVE  S!Next
  OBVIOUS
<1>1. PICK i \in Instances : Commit(i)
  <2>1. applied' # applied
    OBVIOUS
  <2>2. QED
    BY <2>1 DEF StartupNext, ComesUp, Ends, Environment, Start, ReadVersions, RunSql, Record, Conflict,
       Unreachable, Migrated, CheckDb, Ping, Shutdown, Exit, Kill, Outage, Restored, Deploy,
       startup, schema
<1>2. applied' = Append(applied, path[i])
  BY <1>1 DEF Commit
<1>3. path[i] = Len(applied) + 1 /\ path[i] <= FilesOf[i]
  BY <1>1 DEF Inv, StartupTypeOK, Progress, Knows, Commit, Goto
<1>4. Len(applied') = Len(applied) + 1 /\ Len(applied) < Last
  BY <1>2, <1>3, StartupAssumption DEF Inv, StartupTypeOK
<1>5. QED
  BY <1>4 DEF S!Next

\* The service implements the schema that goes through its versions.
THEOREM ServiceImplementsSchema == Spec => ImplementsSchema
<1>1. Init => S!Init
  BY DEF Init, StartupInit, S!Init
<1>2. Inv /\ Inv' /\ [Next]_vars => [S!Next]_(Len(applied))
  BY LevelSteps, StepsOfStartup
<1>3. QED
  BY <1>1, <1>2, InvHolds, PTL DEF Spec, ImplementsSchema, S!Spec
-----------------------------------------------------------------------------
(* The deliveries that wait. *)

\* A loop that holds a job has a task free for it, as it had before the pop.
HeldInv ==
  \A i \in Instances : held[i] => loop[i] # "pop" /\ \E k \in Tasks : task[i][k] = "idle"

\* A job that is held counts from where no delivery will be taken for it.
Counted(i) ==
  /\ held[i]
  /\ loop[i] \in {"lookup", "spawn"} \/ (loop[i] = "drain" /\ "redis" \notin up)

\* The tasks that may still append a delivery, the one of a held job as number 0.
MayAppend ==
  {x \in Instances \X (0..JobConcurrency) :
     IF x[2] = 0 THEN Counted(x[1]) ELSE task[x[1]][x[2]] # "idle"}

Bound == Cardinality(Instances) * (JobConcurrency + outages)

\* The invariant counts them with the deliveries in the list: a loop that makes
\* another task has taken a delivery, found the list empty, or met an outage, and
\* in one outage it gets round once.  What is appended again is counted apart.
BacklogInv == Len(list) + Cardinality(MayAppend) <= Bound + resends

\* One answer more is lost.
LEMMA ResendTypes ==
  ASSUME TypeOK, Resent
  PROVE  resends' \in 0..MaxFaults /\ resends' = resends + 1 /\ resends \in Nat
<1>1. kills \in Nat /\ outages \in Nat /\ resends \in 0..MaxFaults /\ MaxFaults \in Nat
  BY StartupAssumption DEF TypeOK, StartupTypeOK
<1>2. QED
  BY <1>1 DEF Resent

\* The variables of the deliveries keep their types, and a held job its task.
LEMMA DeliveryTypes ==
  ASSUME TypeOK, HeldInv, [Next]_vars, StartupTypeOK'
  PROVE  TypeOK' /\ HeldInv'
<1> USE WebhooksAssumption DEF TypeOK, HeldInv, Tasks, LoopTo
<1>1. ASSUME UNCHANGED deliveries PROVE TypeOK' /\ HeldInv'
  BY <1>1 DEF deliveries
<1>2. ASSUME NEW i \in Instances, Die(i) PROVE TypeOK' /\ HeldInv'
  BY <1>2 DEF Die
<1>3. ASSUME NEW i \in Instances, Pop(i) PROVE TypeOK' /\ HeldInv'
  <2>1. /\ UNCHANGED <<startup, list, enabled, item, task, resends>>
        /\ \E k \in Tasks : task[i][k] = "idle"
        /\ loop' = [loop EXCEPT ![i] = "drain"]
    BY <1>3 DEF Pop
  <2>2. held' \in [Instances -> BOOLEAN] /\ \A n \in Instances \ {i} : held'[n] = held[n]
    BY <1>3 DEF Pop
  <2>3. TypeOK'
    BY <2>1, <2>2
  <2>4. HeldInv'
    BY <2>1, <2>2
  <2>5. QED
    BY <2>3, <2>4
<1>4. ASSUME NEW i \in Instances, Take(i) PROVE TypeOK' /\ HeldInv'
  <2>1. list # <<>> => Head(list) \in Hooks /\ Tail(list) \in Seq(Hooks)
    OBVIOUS
  <2>2. list' \in Seq(Hooks) /\ item' \in [Instances -> Hooks \cup {NoItem}]
    <3>1. CASE list = <<>>
      BY <1>4, <3>1 DEF Take
    <3>2. CASE list # <<>>
      <4>1. list' = Tail(list) /\ item' = [item EXCEPT ![i] = Head(list)]
        BY <1>4, <3>2 DEF Take, AfterPop
      <4>2. QED
        BY <2>1, <3>2, <4>1
    <3>3. QED
      BY <3>1, <3>2
  <2>3. loop' \in [Instances -> {"pop", "drain", "lookup", "spawn"}]
    BY <1>4 DEF Take
  <2>4. /\ UNCHANGED <<startup, enabled, held, task, resends>>
        /\ \A n \in Instances : loop'[n] = "pop" => loop[n] = "pop"
    BY <1>4 DEF Take
  <2>5. QED
    BY <2>2, <2>3, <2>4
<1>5. ASSUME NEW i \in Instances, Lookup(i) \/ StoreError(i) PROVE TypeOK' /\ HeldInv'
  BY <1>5 DEF Lookup, StoreError, AfterError
<1>6. ASSUME NEW i \in Instances, Spawn(i) PROVE TypeOK' /\ HeldInv'
  <2>1. /\ task' \in [Instances -> [Tasks -> {"idle", "working"} \cup Hooks]]
        /\ \A n \in Instances \ {i} : task'[n] = task[n]
    <3>1. CASE ~held[i]
      BY <1>6, <3>1 DEF Spawn
    <3>2. CASE held[i]
      <4>1. PICK k \in Tasks : task' = [task EXCEPT ![i][k] = "working"]
        BY <1>6, <3>2 DEF Spawn
      <4>2. QED
        BY <4>1
    <3>3. QED
      BY <3>1, <3>2
  <2>2. /\ held' = [held EXCEPT ![i] = FALSE] /\ loop' = [loop EXCEPT ![i] = "pop"]
        /\ UNCHANGED <<startup, list, enabled, item, resends>>
    BY <1>6 DEF Spawn
  <2>3. TypeOK'
    BY <2>1, <2>2
  <2>4. ASSUME NEW n \in Instances, held'[n]
        PROVE  loop'[n] # "pop" /\ \E k \in Tasks : task'[n][k] = "idle"
    <3>1. n # i /\ held[n]
      BY <2>2, <2>4
    <3>2. QED
      BY <2>1, <2>2, <3>1
  <2>5. QED
    BY <2>3, <2>4
<1>7. ASSUME NEW i \in Instances, NEW k \in Tasks, FindEndpoint(i, k) \/ QueueDelivery(i, k)
      PROVE  TypeOK' /\ HeldInv'
  <2>1. PICK f \in {"idle", "working"} \cup Hooks : task' = [task EXCEPT ![i][k] = f]
    BY <1>7 DEF FindEndpoint, QueueDelivery
  <2>2. task[i][k] # "idle" \/ f = "idle"
    <3>1. CASE FindEndpoint(i, k)
      BY <3>1 DEF FindEndpoint
    <3>2. CASE QueueDelivery(i, k)
      BY <2>1, <3>2 DEF QueueDelivery
    <3>3. QED
      BY <1>7, <3>1, <3>2
  <2>3. \A n \in Instances, m \in Tasks : task[n][m] = "idle" => task'[n][m] = "idle"
    BY <2>1, <2>2
  <2>4. list' \in Seq(Hooks) /\ UNCHANGED <<startup, enabled, loop, held, item, resends>>
    <3>1. CASE FindEndpoint(i, k)
      BY <3>1 DEF FindEndpoint
    <3>2. CASE QueueDelivery(i, k)
      <4>1. task[i][k] \in Hooks
        BY <3>2 DEF QueueDelivery
      <4>2. Append(list, task[i][k]) \in Seq(Hooks)
        BY <4>1
      <4>3. QED
        BY <3>2, <4>2 DEF QueueDelivery
    <3>3. QED
      BY <1>7, <3>1, <3>2
  <2>5. QED
    BY <2>1, <2>3, <2>4
<1>8. ASSUME NEW h \in Hooks, Disable(h) PROVE TypeOK' /\ HeldInv'
  BY <1>8 DEF Disable
<1>9. ASSUME NEW i \in Instances, TakeAgain(i) PROVE TypeOK' /\ HeldInv'
  <2>1. Tail(list) \in Seq(Hooks) /\ list' = Tail(list)
    BY <1>9 DEF TakeAgain
  <2>2. resends' \in 0..MaxFaults
    BY <1>9, ResendTypes DEF TakeAgain
  <2>3. QED
    BY <1>9, <2>1, <2>2 DEF TakeAgain
<1>10. ASSUME NEW i \in Instances, NEW k \in Tasks, QueueAgain(i, k) PROVE TypeOK' /\ HeldInv'
  <2>1. Append(list, task[i][k]) \in Seq(Hooks) /\ list' = Append(list, task[i][k])
    BY <1>10 DEF QueueAgain
  <2>2. resends' \in 0..MaxFaults
    BY <1>10, ResendTypes DEF QueueAgain
  <2>3. QED
    BY <1>10, <2>1, <2>2 DEF QueueAgain
<1>11. CASE UNCHANGED vars
  BY <1>1, <1>11 DEF vars
<1>12. QED
  BY <1>1, <1>2, <1>3, <1>4, <1>5, <1>6, <1>7, <1>8, <1>9, <1>10, <1>11 DEF Next, Delivers, Loop

\* There are finitely many of them.
LEMMA MayAppendFinite ==
  /\ IsFiniteSet(MayAppend) /\ Cardinality(MayAppend) \in Nat
  /\ IsFiniteSet(MayAppend') /\ Cardinality(MayAppend') \in Nat
  /\ IsFiniteSet(Instances) /\ Cardinality(Instances) \in Nat
<1>1. IsFiniteSet(Instances \X (0..JobConcurrency))
  <2>1. IsFiniteSet(0..JobConcurrency)
    BY WebhooksAssumption, FS_Interval
  <2>2. QED
    BY <2>1, WebhooksAssumption, FS_Product
<1>2. /\ MayAppend \in SUBSET (Instances \X (0..JobConcurrency))
      /\ MayAppend' \in SUBSET (Instances \X (0..JobConcurrency))
  BY DEF MayAppend
<1>3. QED
  BY <1>1, <1>2, WebhooksAssumption, FS_Subset, FS_CardinalityType

\* The bound grows by a round of all the loops with every outage.
LEMMA BoundGrows ==
  ASSUME NEW n \in Nat, NEW c \in Nat, NEW o \in Nat
  PROVE  /\ n * (c + o) \in Nat
         /\ n * (c + (o + 1)) = n * (c + o) + n
         /\ n * c <= n * (c + o)
OBVIOUS

\* With one more element a set has at most one more.
LEMMA AtMostOneMore ==
  ASSUME NEW A, IsFiniteSet(A), NEW x, NEW T \in SUBSET (A \cup {x})
  PROVE  Cardinality(T) <= Cardinality(A) + 1
<1>1. IsFiniteSet(A \cup {x}) /\ Cardinality(A \cup {x}) <= Cardinality(A) + 1
  <2>1. Cardinality(A) \in Nat
    BY FS_CardinalityType
  <2>2. /\ IsFiniteSet(A \cup {x})
        /\ Cardinality(A \cup {x}) = IF x \in A THEN Cardinality(A) ELSE Cardinality(A) + 1
    BY FS_AddElement
  <2>3. QED
    BY <2>1, <2>2
<1>2. Cardinality(T) <= Cardinality(A \cup {x})
  BY <1>1, FS_Subset
<1>3. Cardinality(T) \in Nat /\ Cardinality(A) \in Nat /\ Cardinality(A \cup {x}) \in Nat
  BY <1>1, FS_Subset, FS_CardinalityType
<1>4. QED
  BY <1>1, <1>2, <1>3

\* Tasks that run, and held jobs with a free task: each worker has at most as
\* many of them as it has tasks.
LEMMA AtMostTasks ==
  ASSUME NEW A, NEW t,
         \A x \in A : /\ x = <<x[1], x[2]>> /\ x[1] \in Instances
                      /\ x[2] = 0 => \E k \in Tasks : t[x[1]][k] = "idle"
                      /\ x[2] # 0 => x[2] \in Tasks /\ t[x[1]][x[2]] # "idle"
  PROVE  Cardinality(A) <= Cardinality(Instances) * JobConcurrency
<1> DEFINE free(i) == CHOOSE k \in Tasks : t[i][k] = "idle"
           place == [x \in A |-> IF x[2] = 0 THEN <<x[1], free(x[1])>> ELSE x]
<1>1. ASSUME NEW i, \E k \in Tasks : t[i][k] = "idle"
      PROVE  free(i) \in Tasks /\ t[i][free(i)] = "idle"
  BY <1>1
<1>2. ASSUME NEW x \in A
      PROVE  /\ x[2] = 0 => place[x] = <<x[1], free(x[1])>>
             /\ x[2] # 0 => place[x] = x
  OBVIOUS
<1> HIDE DEF free
<1>3. place = [x \in A |-> place[x]]
  OBVIOUS
<1> HIDE DEF place
<1>4. ASSUME NEW x \in A
      PROVE  /\ place[x] \in Instances \X Tasks /\ place[x][1] = x[1]
             /\ x[2] = 0 => t[x[1]][place[x][2]] = "idle"
             /\ x[2] # 0 => place[x] = x /\ t[x[1]][place[x][2]] # "idle"
  BY <1>1, <1>2
<1>5. place \in Injection(A, Instances \X Tasks)
  <2>1. place \in [A -> Instances \X Tasks]
    BY <1>3, <1>4
  <2>2. ASSUME NEW x \in A, NEW y \in A, place[x] = place[y]
        PROVE  x = y
    <3>1. x[2] = 0 <=> y[2] = 0
      BY <1>4, <2>2
    <3>2. x[1] = y[1]
      BY <1>4, <2>2
    <3>3. QED
      BY <1>4, <2>2, <3>1, <3>2
  <2>3. QED
    BY <2>1, <2>2 DEF Injection, IsInjective
<1>6. /\ IsFiniteSet(Instances \X Tasks)
      /\ Cardinality(Instances \X Tasks) = Cardinality(Instances) * JobConcurrency
  <2>1. IsFiniteSet(Tasks) /\ Cardinality(Tasks) = JobConcurrency
    BY WebhooksAssumption, FS_Interval DEF Tasks
  <2>2. QED
    BY <2>1, WebhooksAssumption, FS_Product
<1>7. QED
  BY <1>5, <1>6, FS_Injection

\* A step that adds no task and no delivery.
LEMMA NoneAdded ==
  ASSUME BacklogInv, Len(list) \in Nat, Len(list') \in Nat, outages \in Nat,
         Len(list') <= Len(list), MayAppend' \in SUBSET MayAppend,
         outages' \in {outages, outages + 1},
         resends \in Nat, resends' \in {resends, resends + 1}
  PROVE  BacklogInv'
<1>1. Cardinality(MayAppend') <= Cardinality(MayAppend)
  BY MayAppendFinite, FS_Subset
<1>2. Bound \in Nat /\ Bound' \in Nat /\ Bound <= Bound'
  BY MayAppendFinite, BoundGrows, WebhooksAssumption DEF Bound
<1>3. QED
  BY <1>1, <1>2, MayAppendFinite DEF BacklogInv

\* A step in which a task appends.
LEMMA OneAppends ==
  ASSUME BacklogInv, NEW x \in MayAppend, MayAppend' \in SUBSET (MayAppend \ {x}),
         Len(list) \in Nat, Len(list') \in Nat, outages \in Nat, outages' = outages,
         resends \in Nat, resends' = resends,
         Len(list') <= Len(list) + 1
  PROVE  BacklogInv'
<1>1. IsFiniteSet(MayAppend \ {x}) /\ Cardinality(MayAppend \ {x}) = Cardinality(MayAppend) - 1
  BY MayAppendFinite, FS_RemoveElement
<1>2. Cardinality(MayAppend') <= Cardinality(MayAppend \ {x})
  BY <1>1, FS_Subset
<1>3. Bound \in Nat /\ Bound' = Bound
  BY MayAppendFinite, BoundGrows, WebhooksAssumption DEF Bound
<1>4. QED
  BY <1>1, <1>2, <1>3, MayAppendFinite DEF BacklogInv

\* A step in which a held job gets its number.
LEMMA OneForOne ==
  ASSUME BacklogInv, NEW x \in MayAppend, NEW y, MayAppend' \in SUBSET ((MayAppend \ {x}) \cup {y}),
         Len(list) \in Nat, outages \in Nat, outages' = outages,
         resends \in Nat, resends' = resends, list' = list
  PROVE  BacklogInv'
<1>1. IsFiniteSet(MayAppend \ {x}) /\ Cardinality(MayAppend \ {x}) = Cardinality(MayAppend) - 1
  BY MayAppendFinite, FS_RemoveElement
<1>2. Cardinality(MayAppend') <= Cardinality(MayAppend \ {x}) + 1
  BY <1>1, AtMostOneMore
<1>3. Bound \in Nat /\ Bound' = Bound
  BY MayAppendFinite, BoundGrows, WebhooksAssumption DEF Bound
<1>4. QED
  BY <1>1, <1>2, <1>3, MayAppendFinite DEF BacklogInv

\* A step in which a delivery is taken for a job that is held.
LEMMA OneForTaken ==
  ASSUME BacklogInv, NEW y,
         Len(list) \in Nat, Len(list') \in Nat, outages \in Nat, outages' = outages,
         resends \in Nat, resends' = resends,
         Len(list') = Len(list) - 1, MayAppend' \in SUBSET (MayAppend \cup {y})
  PROVE  BacklogInv'
<1>1. Cardinality(MayAppend') <= Cardinality(MayAppend) + 1
  BY MayAppendFinite, AtMostOneMore
<1>2. Bound \in Nat /\ Bound' = Bound
  BY MayAppendFinite, BoundGrows, WebhooksAssumption DEF Bound
<1>3. QED
  BY <1>1, <1>2, MayAppendFinite DEF BacklogInv

\* Every step keeps the invariant.
LEMMA BacklogStep ==
  ASSUME TypeOK, HeldInv, BacklogInv, [Next]_vars, TypeOK', HeldInv'
  PROVE  BacklogInv'
<1>a. /\ Len(list) \in Nat /\ Len(list') \in Nat /\ outages \in Nat
      /\ list \in Seq(Hooks) /\ Cardinality(Instances) \in Nat /\ resends \in Nat
  BY MayAppendFinite, StartupAssumption DEF TypeOK, StartupTypeOK
<1> USE WebhooksAssumption DEF MayAppend, Counted, Tasks
<1>1. ASSUME UNCHANGED <<list, loop, held, task, resends>>, outages' \in {outages, outages + 1}, up \subseteq up'
      PROVE  BacklogInv'
  <2>1. MayAppend' \in SUBSET MayAppend
    BY <1>1
  <2>2. QED
    BY <1>a, <1>1, <2>1, NoneAdded
<1>2. ASSUME NEW i \in Instances, Ends(i), Die(i)
      PROVE  BacklogInv'
  <2>1. MayAppend' \in SUBSET MayAppend
    BY <1>2 DEF Ends, Exit, Kill, outside, Die, TypeOK
  <2>2. list' = list /\ outages' = outages /\ resends' = resends
    BY <1>2 DEF Ends, Exit, Kill, outside, Die
  <2>3. QED
    BY <1>a, <2>1, <2>2, NoneAdded
\* An outage of Redis: whatever job is held now may get its task for nothing.
<1>3. ASSUME NEW s \in Stores, Outage(s), UNCHANGED deliveries
      PROVE  BacklogInv'
  <2> DEFINE heads == Instances \X {0}
  <2>1. IsFiniteSet(heads) /\ Cardinality(heads) = Cardinality(Instances)
    <3>1. IsFiniteSet({0}) /\ Cardinality({0}) = 1
      BY FS_Singleton
    <3>2. IsFiniteSet(heads) /\ Cardinality(heads) = Cardinality(Instances) * 1
      BY <3>1, FS_Product
    <3>3. QED
      BY <1>a, <3>2
  <2>2. MayAppend' \in SUBSET (MayAppend \cup heads)
    BY <1>3 DEF deliveries
  <2>3. /\ IsFiniteSet(MayAppend \cup heads)
        /\ Cardinality(MayAppend \cup heads) <= Cardinality(MayAppend) + Cardinality(Instances)
    <3>1. IsFiniteSet(MayAppend) /\ Cardinality(MayAppend) \in Nat
      BY MayAppendFinite
    <3> HIDE DEF MayAppend, heads
    <3>2. /\ IsFiniteSet(MayAppend \cup heads)
          /\ Cardinality(MayAppend \cup heads)
               = Cardinality(MayAppend) + Cardinality(heads) - Cardinality(MayAppend \cap heads)
      BY <2>1, <3>1, FS_Union
    <3>3. Cardinality(MayAppend \cap heads) \in Nat
      BY <3>1, FS_Intersection, FS_CardinalityType
    <3>4. QED
      BY <1>a, <2>1, <3>1, <3>2, <3>3
  <2>4. Cardinality(MayAppend') <= Cardinality(MayAppend \cup heads)
    BY <2>2, <2>3, FS_Subset
  <2>5. Cardinality(MayAppend \cup heads) \in Nat
    BY <2>3, FS_CardinalityType
  <2>6. outages' = outages + 1 /\ list' = list /\ resends' = resends
    BY <1>3 DEF Outage, deliveries
  <2>7. Bound \in Nat /\ Bound' = Bound + Cardinality(Instances)
    BY <1>a, <2>6, BoundGrows DEF Bound
  <2> HIDE DEF MayAppend, heads
  <2>8. QED
    BY <1>a, <2>3, <2>4, <2>5, <2>6, <2>7, MayAppendFinite DEF BacklogInv
<1>4. ASSUME NEW i \in Instances, Pop(i)
      PROVE  BacklogInv'
  <2>1. MayAppend' \in SUBSET MayAppend
    BY <1>4 DEF Pop, LoopTo, startup, outside, TypeOK
  <2>2. list' = list /\ outages' = outages /\ resends' = resends
    BY <1>4 DEF Pop, startup, outside
  <2>3. QED
    BY <1>a, <2>1, <2>2, NoneAdded
<1>5. ASSUME NEW i \in Instances, Take(i)
      PROVE  BacklogInv'
  <2>1. outages' = outages /\ resends' = resends
    BY <1>5 DEF Take, startup, outside
  <2>2. CASE list = <<>>
    <3>1. Len(list') = 0
      BY <1>5, <2>2 DEF Take
    <3>2. Cardinality(MayAppend') <= Cardinality(Instances) * JobConcurrency
      <4>1. ASSUME NEW x \in MayAppend'
            PROVE  /\ x = <<x[1], x[2]>> /\ x[1] \in Instances
                   /\ x[2] = 0 => \E k \in Tasks : task'[x[1]][k] = "idle"
                   /\ x[2] # 0 => x[2] \in Tasks /\ task'[x[1]][x[2]] # "idle"
        BY DEF HeldInv
      <4> HIDE DEF MayAppend
      <4>2. QED
        BY <4>1, AtMostTasks
    <3>3. Cardinality(Instances) * JobConcurrency <= Bound'
      BY <1>a, <2>1, BoundGrows DEF Bound
    <3> HIDE DEF MayAppend
    <3>4. Bound' \in Nat /\ Cardinality(MayAppend') \in Nat
          /\ Cardinality(Instances) * JobConcurrency \in Nat
      BY <1>a, <2>1, BoundGrows, MayAppendFinite DEF Bound
    <3>5. QED
      BY <1>a, <2>1, <3>1, <3>2, <3>3, <3>4 DEF BacklogInv
  <2>3. CASE list # <<>>
    <3>1. list' = Tail(list) /\ Len(list') = Len(list) - 1
      BY <1>a, <1>5, <2>3 DEF Take, AfterPop
    <3>2. MayAppend' \in SUBSET (MayAppend \cup {<<i, 0>>})
      BY <1>5 DEF Take, LoopTo, startup, outside, TypeOK
    <3> HIDE DEF MayAppend, Counted, Tasks
    <3>3. QED
      BY <1>a, <2>1, <3>1, <3>2, OneForTaken
  <2>4. QED
    BY <2>2, <2>3
<1>6. ASSUME NEW i \in Instances, Lookup(i) \/ StoreError(i)
      PROVE  BacklogInv'
  <2>1. MayAppend' \in SUBSET MayAppend
    BY <1>6 DEF Lookup, StoreError, AfterError, LoopTo, startup, outside, TypeOK
  <2>2. list' = list /\ outages' = outages /\ resends' = resends
    BY <1>6 DEF Lookup, StoreError, startup, outside
  <2>3. QED
    BY <1>a, <2>1, <2>2, NoneAdded
<1>7. ASSUME NEW i \in Instances, Spawn(i)
      PROVE  BacklogInv'
  <2>1. list' = list /\ outages' = outages /\ resends' = resends
    BY <1>7 DEF Spawn, startup, outside
  <2>2. CASE ~held[i]
    <3>1. MayAppend' \in SUBSET MayAppend
      BY <1>7, <2>2 DEF Spawn, LoopTo, startup, outside, TypeOK
    <3>2. QED
      BY <1>a, <2>1, <3>1, NoneAdded
  <2>3. CASE held[i]
    <3>1. PICK k \in Tasks : task' = [task EXCEPT ![i][k] = "working"]
      BY <1>7, <2>3 DEF Spawn
    <3>2. <<i, 0>> \in MayAppend
      BY <1>7, <2>3 DEF Spawn, LoopTo
    <3>3. MayAppend' \in SUBSET ((MayAppend \ {<<i, 0>>}) \cup {<<i, k>>})
      BY <1>7, <3>1 DEF Spawn, LoopTo, startup, outside, TypeOK
    <3> HIDE DEF MayAppend, Counted, Tasks
    <3>4. QED
      BY <1>a, <2>1, <3>2, <3>3, OneForOne
  <2>4. QED
    BY <2>2, <2>3
<1>8. ASSUME NEW i \in Instances, NEW k \in Tasks, FindEndpoint(i, k)
      PROVE  BacklogInv'
  <2>1. PICK f : task' = [task EXCEPT ![i][k] = f] /\ task[i][k] = "working"
    BY <1>8 DEF FindEndpoint
  <2>2. MayAppend' \in SUBSET MayAppend
    BY <1>8, <2>1 DEF FindEndpoint, startup, outside, TypeOK
  <2>3. list' = list /\ outages' = outages /\ resends' = resends
    BY <1>8 DEF FindEndpoint, startup, outside
  <2>4. QED
    BY <1>a, <2>2, <2>3, NoneAdded
<1>9. ASSUME NEW i \in Instances, NEW k \in Tasks, QueueDelivery(i, k)
      PROVE  BacklogInv'
  <2>1. task' = [task EXCEPT ![i][k] = "idle"] /\ task[i][k] \in Hooks
    BY <1>9 DEF QueueDelivery
  <2>2. Len(list') <= Len(list) + 1 /\ outages' = outages /\ resends' = resends
    <3>1. Len(Append(list, task[i][k])) = Len(list) + 1
      BY <1>a, <2>1
    <3>2. QED
      BY <1>a, <1>9, <3>1 DEF QueueDelivery, startup, outside
  <2>3. <<i, k>> \in MayAppend
    BY <2>1
  <2>4. MayAppend' \in SUBSET (MayAppend \ {<<i, k>>})
    BY <1>9, <2>1 DEF QueueDelivery, startup, outside, TypeOK
  <2> HIDE DEF MayAppend
  <2>5. QED
    BY <1>a, <2>2, <2>3, <2>4, OneAppends
<1>10. ASSUME NEW h \in Hooks, Disable(h)
       PROVE  BacklogInv'
  BY <1>1, <1>10 DEF Disable, startup, outside
<1>b. ASSUME NEW i \in Instances, TakeAgain(i)
      PROVE  BacklogInv'
  <2>1. Len(list') = Len(list) - 1 /\ resends' = resends + 1
    BY <1>a, <1>b, ResendTypes DEF TakeAgain
  <2>2. MayAppend' = MayAppend /\ outages' = outages
    BY <1>b DEF TakeAgain, startup, outside
  <2> HIDE DEF MayAppend
  <2>3. QED
    BY <1>a, <2>1, <2>2, NoneAdded
<1>c. ASSUME NEW i \in Instances, NEW k \in Tasks, QueueAgain(i, k)
      PROVE  BacklogInv'
  <2>1. Len(list') = Len(list) + 1 /\ resends' = resends + 1
    BY <1>a, <1>c, ResendTypes DEF QueueAgain
  <2>2. MayAppend' = MayAppend /\ outages' = outages
    BY <1>c DEF QueueAgain, startup, outside
  <2>3. Bound \in Nat /\ Bound' = Bound
    BY <1>a, <2>2, BoundGrows DEF Bound
  <2> HIDE DEF MayAppend
  <2>4. QED
    BY <1>a, <2>1, <2>2, <2>3, MayAppendFinite DEF BacklogInv
<1>11. CASE (\E i \in Instances : ComesUp(i)) /\ UNCHANGED deliveries
  <2>1. UNCHANGED <<up, outages>>
    BY <1>11 DEF ComesUp, Start, ReadVersions, RunSql, Record, Commit, Conflict, Unreachable, Migrated,
                 CheckDb, Ping, Shutdown, Fails, Gone, outside
  <2>2. QED
    BY <1>1, <1>11, <2>1 DEF deliveries
<1>12. CASE Environment /\ UNCHANGED deliveries
  <2>1. CASE \E s \in Stores : Outage(s)
    BY <1>3, <1>12, <2>1
  <2>2. CASE \E s \in Stores : Restored(s)
    BY <1>1, <1>12, <2>2 DEF Restored, deliveries
  <2>3. CASE \E i \in Instances : Deploy(i)
    BY <1>1, <1>12, <2>3 DEF Deploy, outside, deliveries
  <2>4. QED
    BY <1>12, <2>1, <2>2, <2>3 DEF Environment
<1>13. CASE UNCHANGED vars
  BY <1>1, <1>13 DEF vars, startup, outside, deliveries
<1> HIDE DEF MayAppend, Counted, Tasks
<1>14. QED
  BY <1>2, <1>4, <1>5, <1>6, <1>7, <1>8, <1>9, <1>10, <1>11, <1>12, <1>13, <1>b, <1>c
  DEF Next, Delivers, Loop

\* The types of all the variables.
THEOREM TypeCorrect == Spec => []TypeOK
<1>1. Init => TypeOK /\ HeldInv
  <2>1. ASSUME Init PROVE StartupTypeOK
    BY <2>1, InvAtFirst DEF Inv
  <2>2. QED
    BY <2>1, WebhooksAssumption, StartupAssumption DEF Init, TypeOK, HeldInv
<1>2. Inv /\ Inv' /\ TypeOK /\ HeldInv /\ [Next]_vars => TypeOK' /\ HeldInv'
  BY DeliveryTypes DEF Inv
<1>3. QED
  BY <1>1, <1>2, InvHolds, PTL DEF Spec

\* Deliveries do not pile up, although a loop takes them only between two jobs
\* and one that fails ends the drain.
THEOREM DeliveriesDoNotPileUp == Spec => []BacklogBound
<1>1. Init => TypeOK /\ HeldInv /\ BacklogInv
  <2> SUFFICES ASSUME Init PROVE TypeOK /\ HeldInv /\ BacklogInv
    OBVIOUS
  <2>1. TypeOK /\ HeldInv
    BY InvAtFirst, WebhooksAssumption, StartupAssumption DEF Init, Inv, TypeOK, HeldInv
  <2>2. MayAppend = {}
    BY WebhooksAssumption DEF Init, MayAppend, Counted, Tasks
  <2>3. Cardinality(MayAppend) = 0 /\ Len(list) = 0
    BY <2>2, FS_EmptySet DEF Init
  <2>4. Bound \in Nat
    BY <2>1, MayAppendFinite, BoundGrows, WebhooksAssumption DEF Bound, TypeOK, StartupTypeOK
  <2>5. QED
    BY <2>1, <2>3, <2>4 DEF Init, BacklogInv
<1>2. Inv /\ Inv' /\ TypeOK /\ HeldInv /\ BacklogInv /\ [Next]_vars
        => TypeOK' /\ HeldInv' /\ BacklogInv'
  BY DeliveryTypes, BacklogStep DEF Inv
<1>3. TypeOK /\ BacklogInv => BacklogBound
  <2> SUFFICES ASSUME TypeOK, BacklogInv PROVE BacklogBound
    OBVIOUS
  <2>1. Len(list) \in Nat /\ Bound \in Nat /\ resends \in Nat
    BY MayAppendFinite, BoundGrows, WebhooksAssumption, StartupAssumption
    DEF Bound, TypeOK, StartupTypeOK
  <2>2. QED
    BY <2>1, MayAppendFinite DEF BacklogInv, BacklogBound, Bound
<1>4. QED
  BY <1>1, <1>2, <1>3, InvHolds, PTL DEF Spec
=============================================================================
