---------------------------- MODULE CreditsProofs ----------------------------
(***************************************************************************)
(* Proofs about Credits: the account of a user is never overdrawn, and     *)
(* charge behaves as one atomic step of the ledger, for every number of    *)
(* concurrent calls, every cost and every grant.                           *)
(***************************************************************************)
EXTENDS Credits, FiniteSetTheorems, TLAPS

Taken == {u \in Units : u[2] <= credits[u[1]]}

LEMMA Difference ==
  ASSUME NEW a \in Nat, NEW b \in Nat, NEW g \in Nat, b > a, b <= g
  PROVE  b - a \in 0..g /\ a + (b - a) = b
OBVIOUS

\* Sums are natural numbers.
LEMMA UsedFinite ==
  /\ IsFiniteSet(Taken)
  /\ Used = Cardinality(Taken)
  /\ Used \in Nat
<1>1. IsFiniteSet(1..MaxCost)
  BY CreditsAssumption, FS_Interval
<1>2. IsFiniteSet(Units)
  BY <1>1, CreditsAssumption, FS_Product DEF Units
<1>3. IsFiniteSet(Taken)
  BY <1>2, FS_Subset DEF Taken
<1>4. QED
  BY <1>3, FS_CardinalityType DEF Used, Taken

LEMMA UsedFinitePrime ==
  /\ IsFiniteSet(Taken')
  /\ Used' = Cardinality(Taken')
  /\ Used' \in Nat
<1>1. IsFiniteSet(1..MaxCost)
  BY CreditsAssumption, FS_Interval
<1>2. IsFiniteSet(Units)
  BY <1>1, CreditsAssumption, FS_Product DEF Units
<1>3. IsFiniteSet(Taken')
  BY <1>2, FS_Subset DEF Taken
<1>4. QED
  BY <1>3, FS_CardinalityType DEF Used, Taken

\* Lowering rows lowers the sum.
LEMMA UsedMonotone ==
  ASSUME TypeOK, TypeOK', \A r \in Requests : credits'[r] <= credits[r]
  PROVE  Used' <= Used
<1>1. Taken' \in SUBSET Taken
  BY CreditsAssumption DEF Taken, Units, TypeOK
<1>2. QED
  BY <1>1, UsedFinite, UsedFinitePrime, FS_Subset

\* A row of n credits is n units.
LEMMA UnitsOfRow ==
  ASSUME NEW r, NEW n \in Nat
  PROVE  /\ IsFiniteSet({r} \X (1..n))
         /\ Cardinality({r} \X (1..n)) = n
<1>1. IsFiniteSet({r}) /\ Cardinality({r}) = 1
  BY FS_Singleton
<1>2. IsFiniteSet(1..n) /\ Cardinality(1..n) = n
  BY FS_Interval
<1>3. /\ IsFiniteSet({r} \X (1..n))
      /\ Cardinality({r} \X (1..n)) = Cardinality({r}) * Cardinality(1..n)
  BY <1>1, <1>2, FS_Product, Zenon
<1>4. QED
  BY <1>1, <1>2, <1>3

\* A row that goes from 0 to its cost raises the sum by at most the cost.
LEMMA UsedAfterCommit ==
  ASSUME TypeOK, NEW r \in Requests, credits[r] = 0,
         credits' = [credits EXCEPT ![r] = Cost[r]]
  PROVE  Used' <= Used + Cost[r]
<1> DEFINE New == {r} \X (1..Cost[r])
<1>1. Cost[r] \in Nat
  BY CreditsAssumption
<1>2. IsFiniteSet(New) /\ Cardinality(New) = Cost[r]
  BY <1>1, UnitsOfRow
<1>3. Taken' \in SUBSET (Taken \cup New)
  BY CreditsAssumption DEF Taken, Units, TypeOK
<1>4. /\ IsFiniteSet(Taken \cup New)
      /\ Cardinality(Taken \cup New)
           = Cardinality(Taken) + Cardinality(New) - Cardinality(Taken \cap New)
  BY <1>2, UsedFinite, FS_Union
<1>5. Cardinality(Taken \cap New) \in Nat
  BY <1>2, FS_Intersection, FS_CardinalityType
<1>6. Cardinality(Taken') <= Cardinality(Taken \cup New)
  BY <1>3, <1>4, FS_Subset
<1>7. /\ Cardinality(Taken) \in Nat /\ Cardinality(Taken') \in Nat
      /\ Cardinality(New) = Cost[r]
  BY <1>2, UsedFinite, UsedFinitePrime, FS_CardinalityType
<1>8. Cardinality(Taken') <= Cardinality(Taken) + Cost[r]
  BY <1>1, <1>2, <1>4, <1>5, <1>6, <1>7, UsedFinite
<1>9. QED
  BY <1>8, UsedFinite, UsedFinitePrime
-----------------------------------------------------------------------------
\* Every variable keeps its type.
THEOREM TypeCorrect == Spec => []TypeOK
<1> USE CreditsAssumption DEF TypeOK, PCs, InTransaction
<1>1. Init => TypeOK
  BY DEF Init
<1>2. TypeOK /\ [Next]_vars => TypeOK'
  <2> SUFFICES ASSUME TypeOK, [Next]_vars
               PROVE  TypeOK'
    OBVIOUS
  <2>1. ASSUME NEW r \in Requests, Begin(r) \/ Abort(r)
        PROVE  TypeOK'
    BY <2>1 DEF Begin, Abort, Goto, rows
  <2>2. ASSUME NEW r \in Requests, Charge(r)
        PROVE  TypeOK'
    <3>1. CASE ReadSum(r)
      BY <3>1, UsedFinite DEF ReadSum, Goto, rows
    <3>2. CASE Refuse(r) \/ Insert(r) \/ CommitNothing(r)
      BY <3>2 DEF Refuse, Insert, CommitNothing, Goto, rows
    <3>3. CASE Commit(r)
      BY <3>3 DEF Commit, Goto, rows
    <3>4. QED
      BY <2>2, <3>1, <3>2, <3>3 DEF Charge
  <2>3. ASSUME NEW j \in Jobs, Settle(j) \/ Refund(j) \/ DeleteJob(j)
        PROVE  TypeOK'
    BY <2>3 DEF Settle, Refund, DeleteJob, RowsOf
  <2>4. CASE UNCHANGED vars
    BY <2>4 DEF vars
  <2>5. QED
    BY <2>1, <2>2, <2>3, <2>4 DEF Next
<1>3. QED
  BY <1>1, <1>2, PTL DEF Spec
-----------------------------------------------------------------------------
\* What makes the limit inductive: nobody else writes under the row lock.
IInv == LockInv /\ UsedWithinGrant /\ OneRowPerJob

LEMMA IInvInit == Init => IInv
<1> SUFFICES ASSUME Init
             PROVE  IInv
  OBVIOUS
<1>1. Taken = {}
  BY CreditsAssumption DEF Init, Taken, Units
<1>2. Used = 0
  BY <1>1, UsedFinite, FS_EmptySet
<1>3. LockInv /\ OneRowPerJob
  BY CreditsAssumption DEF Init, LockInv, OneRowPerJob, InTransaction
<1>4. QED
  BY <1>2, <1>3, CreditsAssumption DEF IInv, UsedWithinGrant

\* The sum changes in two ways only: a covered charge, or downwards.
LEMMA UsedStep ==
  ASSUME TypeOK, TypeOK', LockInv, UsedWithinGrant, [Next]_vars
  PROVE  \/ \E r \in Requests :
              /\ Commit(r)
              /\ Used' <= Used + Cost[r]
              /\ Used + Cost[r] <= Granted
         \/ Used' <= Used /\ ~\E r \in Requests : Commit(r)
<1> DEFINE Quiet == ~\E r \in Requests : Commit(r)
<1>1. ASSUME NEW r \in Requests, Commit(r)
      PROVE  Used' <= Used + Cost[r] /\ Used + Cost[r] <= Granted
  <2>1. credits[r] = 0
    BY <1>1 DEF Commit, Goto, LockInv
  <2>2. credits' = [credits EXCEPT ![r] = Cost[r]]
    BY <1>1 DEF Commit
  <2>3. Used' <= Used + Cost[r]
    BY <2>1, <2>2, UsedAfterCommit
  <2>4. Used <= seen[r] /\ Covered(r)
    BY <1>1 DEF Commit, Goto, LockInv
  <2>5. Used + Cost[r] <= Granted
    BY <2>4, UsedFinite, CreditsAssumption DEF Covered, TypeOK
  <2>6. QED
    BY <2>3, <2>5
<1>2. ASSUME Quiet, Next
      PROVE  \A r \in Requests : credits'[r] <= credits[r]
  <2>1. ASSUME NEW r \in Requests, Begin(r) \/ Abort(r) \/ Charge(r)
        PROVE  credits' = credits
    BY <1>2, <2>1 DEF Begin, Abort, Charge, ReadSum, Refuse, Insert, CommitNothing, rows
  <2>2. ASSUME NEW j \in Jobs, Settle(j) \/ DeleteJob(j)
        PROVE  credits' = credits
    BY <2>2 DEF Settle, DeleteJob
  <2>3. ASSUME NEW j \in Jobs, Refund(j), NEW r \in Requests
        PROVE  credits'[r] <= credits[r]
    BY <2>3, CreditsAssumption DEF Refund, TypeOK
  <2>4. QED
    BY <1>2, <2>1, <2>2, <2>3, CreditsAssumption DEF Next, TypeOK
<1>3. CASE UNCHANGED vars
  BY <1>3, UsedFinite, CreditsAssumption DEF vars, Used, Commit, Goto, TypeOK
<1>4. QED
  BY <1>1, <1>2, <1>3, UsedMonotone

\* A call that has read the sum holds the lock, so a call that commits is that
\* same call: what was read stays an upper bound.
LEMMA LockStep ==
  ASSUME TypeOK, TypeOK', LockInv, UsedWithinGrant, [Next]_vars
  PROVE  LockInv'
<1>1. Used \in Nat /\ Used' \in Nat
  BY UsedFinite, UsedFinitePrime
<1> USE CreditsAssumption, <1>1 DEF TypeOK, LockInv, InTransaction, Covered
<1>2. ASSUME NEW r \in Requests, Begin(r)
      PROVE  LockInv'
  <2>1. Used' = Used
    BY <1>2 DEF Begin, rows, Used
  <2>2. QED
    BY <1>2, <2>1 DEF Begin, Goto, rows, RowsOf
<1>3. ASSUME NEW r \in Requests, ReadSum(r)
      PROVE  LockInv'
  <2>1. Used' = Used
    BY <1>3 DEF ReadSum, rows, Used
  <2>2. QED
    BY <1>3, <2>1 DEF ReadSum, Goto, rows, RowsOf
<1>4. ASSUME NEW r \in Requests, Refuse(r) \/ Insert(r) \/ CommitNothing(r)
      PROVE  LockInv'
  <2>1. Used' = Used
    BY <1>4 DEF Refuse, Insert, CommitNothing, rows, Used
  <2>2. QED
    BY <1>4, <2>1 DEF Refuse, Insert, CommitNothing, Goto, rows, RowsOf
<1>5. ASSUME NEW r \in Requests, Commit(r)
      PROVE  LockInv'
  <2>1. lock = {r}
    BY <1>5 DEF Commit, Goto
  <2>2. \A s \in Requests : pc[s] \in InTransaction => lock = {s}
    OBVIOUS
  <2>3. \A s \in Requests : s # r => pc[s] \notin InTransaction
    BY <2>1, <2>2
  <2>4. QED
    BY <1>5, <2>3 DEF Commit, Goto, RowsOf
<1>6. ASSUME NEW r \in Requests, Abort(r)
      PROVE  LockInv'
  <2>1. Used' = Used
    BY <1>6 DEF Abort, rows, Used
  <2>2. QED
    BY <1>6, <2>1 DEF Abort, rows, RowsOf
<1>7. ASSUME NEW j \in Jobs, Settle(j) \/ Refund(j) \/ DeleteJob(j)
      PROVE  LockInv'
  <2>1. Used' <= Used
    BY <1>7, UsedStep DEF Settle, Refund, DeleteJob, Commit, Goto, Next
  <2>2. QED
    BY <1>7, <2>1 DEF Settle, Refund, DeleteJob, RowsOf
<1>8. CASE UNCHANGED vars
  BY <1>8 DEF vars, RowsOf, Used
<1>9. QED
  BY <1>2, <1>3, <1>4, <1>5, <1>6, <1>7, <1>8 DEF Next, Charge

LEMMA IInvStep ==
  ASSUME TypeOK, TypeOK', IInv, [Next]_vars
  PROVE  IInv'
<1> USE DEF IInv
<1>1. LockInv'
  BY LockStep
<1>2. UsedWithinGrant'
  BY UsedStep, UsedFinite, UsedFinitePrime, CreditsAssumption DEF UsedWithinGrant
<1>3. OneRowPerJob'
  <2>1. ASSUME NEW r \in Requests, Commit(r)
        PROVE  OneRowPerJob'
    BY <2>1 DEF Commit, Goto, LockInv, OneRowPerJob, RowsOf
  <2>2. ASSUME ~\E r \in Requests : Commit(r)
        PROVE  linked' \in SUBSET linked
    BY <2>2 DEF Next, vars, Begin, Charge, ReadSum, Refuse, Insert, CommitNothing,
                Abort, Settle, Refund, DeleteJob, rows
  <2>3. QED
    BY <2>1, <2>2 DEF OneRowPerJob
<1>4. QED
  BY <1>1, <1>2, <1>3

LEMMA Invariant == Spec => [](TypeOK /\ IInv)
<1>1. TypeOK /\ TypeOK' /\ IInv /\ [Next]_vars => IInv'
  BY IInvStep
<1>2. QED
  BY <1>1, IInvInit, TypeCorrect, PTL DEF Spec
-----------------------------------------------------------------------------
\* The account of a user is never overdrawn.
THEOREM NeverOverdrawn == Spec => []UsedWithinGrant
<1>1. IInv => UsedWithinGrant
  BY DEF IInv
<1>2. QED
  BY <1>1, Invariant, PTL

\* A job has at most one usage record, however often it is charged.
THEOREM ChargedOnce == Spec => []OneRowPerJob
<1>1. IInv => OneRowPerJob
  BY DEF IInv
<1>2. QED
  BY <1>1, Invariant, PTL

\* charge, settle and refund implement the ledger: a charge is one step that
\* checks and takes, anything else gives back or changes nothing.
THEOREM CreditsImplementLedger == Spec => ImplementsLedger
<1>1. Init => Balance!Init
  <2> SUFFICES ASSUME Init
               PROVE  Used = 0
    BY DEF Balance!Init
  <2>1. Taken = {}
    BY CreditsAssumption DEF Init, Taken, Units
  <2>2. QED
    BY <2>1, UsedFinite, FS_EmptySet
<1>2. TypeOK /\ TypeOK' /\ IInv /\ [Next]_vars => [Balance!Next]_Used
  <2> SUFFICES ASSUME TypeOK, TypeOK', IInv, [Next]_vars
               PROVE  [Balance!Next]_Used
    OBVIOUS
  <2>1. Used \in Nat /\ Used' \in Nat
    BY UsedFinite, UsedFinitePrime
  <2>2. ASSUME NEW r \in Requests, Used' <= Used + Cost[r], Used + Cost[r] <= Granted
        PROVE  Balance!Refund \/ \E c \in 0..Granted : Balance!Charge(c)
    <3>1. Cost[r] \in Nat /\ Granted \in Nat
      BY CreditsAssumption
    <3>2. CASE Used' <= Used
      BY <3>2, <2>1 DEF Balance!Refund
    <3>3. CASE Used' > Used
      <4>1. Used' <= Granted
        BY <3>1, <2>1, <2>2
      <4>2. Used' - Used \in 0..Granted /\ Used + (Used' - Used) = Used'
        BY <4>1, <3>1, <3>3, <2>1, Difference
      <4>3. Balance!Charge(Used' - Used)
        BY <4>1, <4>2 DEF Balance!Charge
      <4>4. QED
        BY <4>2, <4>3
    <3>4. QED
      BY <3>2, <3>3, <2>1
  <2>3. CASE Used' <= Used
    BY <2>1, <2>3 DEF Balance!Next, Balance!Refund
  <2>4. QED
    BY <2>2, <2>3, UsedStep DEF IInv, Balance!Next
<1>3. QED
  BY <1>1, <1>2, Invariant, PTL DEF Spec, ImplementsLedger, Balance!Spec
=============================================================================
