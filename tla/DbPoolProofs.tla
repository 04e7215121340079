---------------------------- MODULE DbPoolProofs ----------------------------
(***************************************************************************)
(* Proofs about DbPool, for any number of threads, of connections and of   *)
(* failures: a closed pool does not stay, and what has settled stays so.   *)
(***************************************************************************)
EXTENDS DbPool, FiniteSetTheorems, TLAPS

\* There is always a number for a new pool: there are more pools than threads
\* and the global together.
LEMMA FreshPool ==
  ASSUME TypeOK
  PROVE  Fresh \in Pools /\ Fresh \notin Live
<1> DEFINE Held == {pool[t] : t \in Threads}
<1>1. IsFiniteSet(Held) /\ Cardinality(Held) <= Cardinality(Threads)
  <2>1. pool \in Surjection(Threads, Held)
    BY DEF TypeOK, Surjection
  <2>2. QED
    BY <2>1, DbPoolAssumption, FS_Surjection
<1>2. IsFiniteSet(Live) /\ Cardinality(Live) <= Cardinality(Held) + 1
  <2>1. Live = Held \cup {current}
    BY DEF Live
  <2>2. QED
    BY <1>1, <2>1, FS_AddElement, FS_CardinalityType
<1>3. IsFiniteSet(Pools) /\ Cardinality(Pools) = MaxPools
  BY DbPoolAssumption, FS_Interval DEF Pools
<1>4. Cardinality(Live) < Cardinality(Pools)
  BY <1>1, <1>2, <1>3, DbPoolAssumption, FS_CardinalityType
<1>5. \E p \in Pools : p \notin Live
  <2>1. SUFFICES ASSUME Pools \subseteq Live
                 PROVE  FALSE
    OBVIOUS
  <2>2. Cardinality(Pools) <= Cardinality(Live)
    BY <1>2, <2>1, FS_Subset
  <2>3. QED
    BY <1>2, <1>3, <1>4, <2>2, FS_CardinalityType
<1>6. QED
  BY <1>5 DEF Fresh

\* None is not a pool.
LEMMA NoneIsNoPool == NoPool \notin Pools
BY DbPoolAssumption DEF Pools

\* Where a thread goes after an error.
LEMMA ErrorLabels == \A t \in Threads : AfterError(t) \in {"close", "failed"}
BY DEF AfterError

\* A thread that leaves its pool keeps the types.
LEMMA FinishTypes ==
  ASSUME TypeOK, NEW t \in Threads, NEW how \in {"idle", "failed", "close"}, Finish(t, how)
  PROVE  /\ pc' \in [Threads -> Over \cup {"get", "create", "return", "connect", "run", "close", "drop"}]
         /\ pool' \in [Threads -> Pools \cup {NoPool}]
         /\ \A s \in Threads : pool'[s] \in Pools <=> pc'[s] \in {"connect", "run"}
<1> USE DEF TypeOK, Finish, Goto, Over
<1>1. pc' = [pc EXCEPT ![t] = how] /\ pool' = [pool EXCEPT ![t] = NoPool]
  OBVIOUS
<1>2. pc' \in [Threads -> Over \cup {"get", "create", "return", "connect", "run", "close", "drop"}]
  BY <1>1
<1>3. pool' \in [Threads -> Pools \cup {NoPool}]
  BY <1>1
<1>4. ASSUME NEW s \in Threads
      PROVE  pool'[s] \in Pools <=> pc'[s] \in {"connect", "run"}
  <2>1. CASE s = t
    BY <1>1, <2>1, NoneIsNoPool
  <2>2. CASE s # t
    BY <1>1, <2>2
  <2>3. QED
    BY <2>1, <2>2
<1>5. QED
  BY <1>2, <1>3, <1>4

\* Every variable keeps its type.
LEMMA TypeStep ==
  ASSUME TypeOK, [Next]_vars
  PROVE  TypeOK'
<1> USE DEF TypeOK, Goto, Over
<1>1. ASSUME NEW t \in Threads, Begin(t)
      PROVE  TypeOK'
  BY <1>1 DEF Begin
<1>2. ASSUME NEW t \in Threads, Get(t)
      PROVE  TypeOK'
  BY <1>2 DEF Get
<1>3. ASSUME NEW t \in Threads, Create(t)
      PROVE  TypeOK'
  BY <1>3, FreshPool DEF Create, StillClosed
<1>4. ASSUME NEW t \in Threads, Return(t)
      PROVE  TypeOK'
  <2>1. CASE current = NoPool
    BY <1>4, <2>1, FinishTypes DEF Return
  <2>2. CASE current # NoPool
    BY <1>4, <2>2 DEF Return
  <2>3. QED
    BY <2>1, <2>2
<1>5. ASSUME NEW t \in Threads, Connect(t)
      PROVE  TypeOK'
  BY <1>5 DEF Connect
<1>6. ASSUME NEW t \in Threads, Refused(t) \/ Lost(t)
      PROVE  TypeOK'
  <2>1. Finish(t, AfterError(t)) /\ UNCHANGED <<current, closed, up, retries>>
    BY <1>6 DEF Refused, Lost, TransientError
  <2>2. faults' \in 0..MaxFaults
    BY <1>6, DbPoolAssumption DEF Refused, Lost, FaultHappens
  <2>3. QED
    BY <2>1, <2>2, ErrorLabels, FinishTypes
<1>7. ASSUME NEW t \in Threads, Run(t)
      PROVE  TypeOK'
  BY <1>7, FinishTypes DEF Run
<1>8. ASSUME NEW t \in Threads, Close(t)
      PROVE  TypeOK'
  BY <1>8 DEF Close
<1>9. ASSUME NEW t \in Threads, Drop(t)
      PROVE  TypeOK'
  BY <1>9 DEF Drop, Dropped
<1>10. CASE Outage \/ Restored
  <2>1. faults' \in 0..MaxFaults
    BY <1>10, DbPoolAssumption DEF Outage, Restored, FaultHappens
  <2>2. up' \in BOOLEAN /\ UNCHANGED <<current, closed, pc, pool, retries>>
    BY <1>10 DEF Outage, Restored
  <2>3. QED
    BY <2>1, <2>2
<1>11. CASE UNCHANGED vars
  BY <1>11 DEF vars
<1>12. QED
  BY <1>1, <1>2, <1>3, <1>4, <1>5, <1>6, <1>7, <1>8, <1>9, <1>10, <1>11 DEF Next, Step

\* Every variable has its type.
THEOREM TypeCorrect == Spec => []TypeOK
<1>1. Init => TypeOK
  BY DbPoolAssumption, NoneIsNoPool, FS_CardinalityType DEF Init, TypeOK, Over, Pools
<1>2. QED
  BY <1>1, TypeStep, PTL DEF Spec
-----------------------------------------------------------------------------
\* A step after which a closed pool is the global one leaves a thread about to
\* take it away.
LEMMA ClosedStep ==
  ASSUME TypeOK, ClosedPoolIsDropped, [Next]_vars
  PROVE  ClosedPoolIsDropped'
<1> USE DEF TypeOK, ClosedPoolIsDropped, Goto
<1>1. ASSUME NEW t \in Threads, Create(t)
      PROVE  ClosedPoolIsDropped'
  BY <1>1, FreshPool DEF Create, StillClosed
<1>2. ASSUME NEW t \in Threads, Close(t)
      PROVE  ClosedPoolIsDropped'
  BY <1>2 DEF Close
<1>3. ASSUME NEW t \in Threads, Drop(t)
      PROVE  ClosedPoolIsDropped'
  BY <1>3, NoneIsNoPool DEF Drop, Dropped
<1>4. ASSUME NEW t \in Threads,
             Begin(t) \/ Get(t) \/ Return(t) \/ Connect(t) \/ Refused(t) \/ Run(t) \/ Lost(t)
      PROVE  ClosedPoolIsDropped'
  BY <1>4 DEF Begin, Get, Return, Connect, Refused, Run, Lost, TransientError, Finish, AfterError, Over
<1>5. CASE Outage \/ Restored \/ UNCHANGED vars
  BY <1>5 DEF Outage, Restored, vars
<1>6. QED
  BY <1>1, <1>2, <1>3, <1>4, <1>5 DEF Next, Step

\* A closed pool does not stay.
THEOREM ClosedDropped == Spec => []ClosedPoolIsDropped
<1>1. Init => ClosedPoolIsDropped
  BY DEF Init, ClosedPoolIsDropped
<1>2. QED
  BY <1>1, ClosedStep, TypeCorrect, PTL DEF Spec
-----------------------------------------------------------------------------
\* What CalmStays says of a step.
KeepsCalm ==
  /\ Calm'
  /\ \A t \in Threads : pc'[t] = "failed" => pc[t] = "failed"

\* While it is calm and nothing fails, no step upsets it.
LEMMA CalmStep ==
  ASSUME TypeOK, Next, Calm, faults' = faults
  PROVE  KeepsCalm
<1> USE DEF TypeOK, Calm, KeepsCalm, Goto
<1>1. ~FaultHappens
  BY DEF FaultHappens
<1>2. ASSUME NEW t \in Threads, Begin(t) \/ Get(t)
      PROVE  KeepsCalm
  BY <1>2 DEF Begin, Get, Over
<1>3. ASSUME NEW t \in Threads, Create(t)
      PROVE  KeepsCalm
  BY <1>3, FreshPool, NoneIsNoPool DEF Create, StillClosed
<1>4. ASSUME NEW t \in Threads, Return(t)
      PROVE  KeepsCalm
  BY <1>4 DEF Return
<1>5. ASSUME NEW t \in Threads, Connect(t)
      PROVE  KeepsCalm
  BY <1>5 DEF Connect
<1>6. ASSUME NEW t \in Threads, Refused(t) \/ Lost(t)
      PROVE  FALSE
  BY <1>1, <1>6 DEF Refused, Lost
<1>7. ASSUME NEW t \in Threads, Run(t)
      PROVE  KeepsCalm
  BY <1>7 DEF Run, Finish
<1>8. ASSUME NEW t \in Threads, Close(t) \/ Drop(t)
      PROVE  FALSE
  BY <1>8 DEF Close, Drop
<1>9. CASE Outage \/ Restored
  BY <1>1, <1>9 DEF Outage, Restored
<1>10. QED
  BY <1>2, <1>3, <1>4, <1>5, <1>6, <1>7, <1>8, <1>9 DEF Next, Step

\* What has settled stays so, and lets every statement succeed, until the
\* database or a connection fails again.
THEOREM CalmPersists == Spec => CalmStays
<1>1. TypeOK /\ [Next]_vars => [Calm /\ faults' = faults => KeepsCalm]_vars
  <2>1. TypeOK /\ Next /\ Calm /\ faults' = faults => KeepsCalm
    BY CalmStep
  <2>2. QED
    BY <2>1
<1>2. Spec => [][Calm /\ faults' = faults => KeepsCalm]_vars
  BY <1>1, TypeCorrect, PTL DEF Spec
<1>3. QED
  BY <1>2 DEF CalmStays, KeepsCalm
=============================================================================
