-------------------------- MODULE AdmissionProofs --------------------------
(***************************************************************************)
(* Proofs about Admission: how far the outstanding jobs of a user can get  *)
(* beyond the limit, and the queue beyond its cap, for any number of users *)
(* and of requests at once, any limits and any number of failures.         *)
(***************************************************************************)
EXTENDS Admission, FiniteSetTheorems, TLAPS

\* Where the row of the text in hand may exist, and a request has texts.
RowInv ==
  \A c \in Clients :
    /\ pc[c] # "idle" => todo[c] > 0
    /\ row[c] => pc[c] \in {"charge", "remove", "push"}

\* The texts a request was let in with and has not queued, that in hand too.
Admitted == {"depth"} \cup InLoop

Pledged(u) ==
  {x \in ClientsOf(u) \X (1..BatchMax) : pc[x[1]] \in Admitted /\ x[2] <= todo[x[1]]}

InLists(u) == queued[u] + running[u] + stuck[u] + parked[u]

\* What the limit is exceeded by at most.
Excess(u) == (Cardinality(ClientsOf(u)) - 1) * BatchMax

\* The inductive invariant: room is left for what was let in already.
PledgeInv ==
  \A u \in Users : ClientsOf(u) # {} =>
    InLists(u) + Cardinality(Pledged(u)) <= MaxOutstanding + Excess(u)

IInv == TypeOK /\ RowInv /\ PledgeInv

-----------------------------------------------------------------------------
(* Finite sets. *)

\* The clients of a user are finitely many.
LEMMA ClientsFinite ==
  ASSUME NEW u \in Users
  PROVE  /\ IsFiniteSet(ClientsOf(u))
         /\ Cardinality(ClientsOf(u)) \in Nat
<1>1. ClientsOf(u) \in SUBSET Clients /\ IsFiniteSet(Clients)
  BY AdmissionAssumption DEF ClientsOf
<1>2. QED
  BY <1>1, FS_Subset, FS_CardinalityType

\* The rows in hand are a number.
LEMMA InHandType ==
  ASSUME NEW u \in Users
  PROVE  InHand(u) \in Nat /\ InHand(u)' \in Nat
<1>1. ASSUME NEW S \in SUBSET ClientsOf(u)
      PROVE  Cardinality(S) \in Nat
  BY ClientsFinite, FS_Subset, FS_CardinalityType
<1>2. /\ {c \in ClientsOf(u) : row[c]} \in SUBSET ClientsOf(u)
      /\ {c \in ClientsOf(u) : row'[c]} \in SUBSET ClientsOf(u)
  OBVIOUS
<1>3. QED
  BY <1>1, <1>2 DEF InHand, ClientsOf

\* As many pairs as the product of the sizes.
LEMMA ProductSize ==
  ASSUME NEW S, IsFiniteSet(S), NEW n \in Nat
  PROVE  /\ IsFiniteSet(S \X (1..n))
         /\ Cardinality(S \X (1..n)) = Cardinality(S) * n
<1>1. IsFiniteSet(1..n) /\ Cardinality(1..n) = n
  BY FS_Interval
<1>2. QED
  BY <1>1, FS_Product

\* The texts pledged are finitely many.
LEMMA PledgedFinite ==
  ASSUME NEW u \in Users
  PROVE  /\ IsFiniteSet(Pledged(u)) /\ Cardinality(Pledged(u)) \in Nat
         /\ IsFiniteSet(Pledged(u)') /\ Cardinality(Pledged(u)') \in Nat
<1>1. BatchMax \in Nat
  BY AdmissionAssumption
<1>2. IsFiniteSet(ClientsOf(u) \X (1..BatchMax))
  BY <1>1, ClientsFinite, ProductSize
<1>3. /\ Pledged(u) \in SUBSET (ClientsOf(u) \X (1..BatchMax))
      /\ Pledged(u)' \in SUBSET (ClientsOf(u) \X (1..BatchMax))
  BY DEF Pledged, ClientsOf
<1>4. QED
  BY <1>2, <1>3, FS_Subset, FS_CardinalityType

\* A subset that lacks an element is smaller by one.
LEMMA Smaller ==
  ASSUME NEW S, IsFiniteSet(S), NEW T \in SUBSET S, NEW x \in S, x \notin T
  PROVE  Cardinality(T) \in Nat /\ Cardinality(S) \in Nat /\ Cardinality(T) + 1 <= Cardinality(S)
<1>1. IsFiniteSet(T) /\ Cardinality(T) \in Nat /\ Cardinality(S) \in Nat
  BY FS_Subset, FS_CardinalityType
<1>2. IsFiniteSet(T \cup {x}) /\ Cardinality(T \cup {x}) = Cardinality(T) + 1
  BY <1>1, FS_AddElement
<1>3. T \cup {x} \in SUBSET S
  OBVIOUS
<1>4. Cardinality(T \cup {x}) <= Cardinality(S)
  BY <1>3, FS_Subset
<1>5. QED
  BY <1>1, <1>2, <1>4

\* A row in hand is one of the texts pledged.
LEMMA InHandPledged ==
  ASSUME TypeOK, RowInv, NEW u \in Users
  PROVE  InHand(u) <= Cardinality(Pledged(u))
<1> DEFINE R == {c \in ClientsOf(u) : row[c]}
           f == [c \in R |-> <<c, 1>>]
<1>1. ASSUME NEW c \in R
      PROVE  <<c, 1>> \in Pledged(u)
  <2>1. c \in Clients /\ pc[c] \in Admitted /\ todo[c] > 0 /\ todo[c] \in Nat
    BY DEF ClientsOf, RowInv, TypeOK, Admitted, InLoop
  <2>2. 1 \in 1..BatchMax
    BY AdmissionAssumption
  <2>3. QED
    BY <2>1, <2>2 DEF Pledged
<1>2. f \in Injection(R, Pledged(u))
  <2>1. f \in [R -> Pledged(u)]
    BY <1>1
  <2>2. ASSUME NEW c \in R, NEW d \in R, f[c] = f[d]
        PROVE  c = d
    <3>1. f[c] = <<c, 1>> /\ f[d] = <<d, 1>>
      OBVIOUS
    <3>2. QED
      BY <2>2, <3>1
  <2>3. QED
    BY <2>1, <2>2 DEF Injection, IsInjective
<1>3. QED
  BY <1>2, PledgedFinite, FS_Injection DEF InHand

-----------------------------------------------------------------------------
(* Types. *)

\* The initial state has the right types.
LEMMA InitTypes == Init => TypeOK /\ RowInv
BY AdmissionAssumption DEF Init, TypeOK, RowInv

\* Every variable keeps its type.
LEMMA TypeStep ==
  ASSUME TypeOK, RowInv, [Next]_vars
  PROVE  TypeOK' /\ RowInv'
<1> USE AdmissionAssumption DEF TypeOK, RowInv, jobs, request, ghosts, Goto, FaultHappens, Stray,
     AsMeant, Unlisted, InLoop
<1>1. ASSUME NEW c \in Clients, Begin(c)
      PROVE  TypeOK' /\ RowInv'
  BY <1>1 DEF Begin
<1>2. ASSUME NEW c \in Clients, CountRows(c)
      PROVE  TypeOK' /\ RowInv'
  BY <1>2 DEF CountRows, Answer
<1>3. ASSUME NEW c \in Clients, CheckDepth(c)
      PROVE  TypeOK' /\ RowInv'
  BY <1>3 DEF CheckDepth, Answer
<1>4. ASSUME NEW c \in Clients, Insert(c)
      PROVE  TypeOK' /\ RowInv'
  BY <1>4 DEF Insert
<1>5. ASSUME NEW c \in Clients, Charge(c)
      PROVE  TypeOK' /\ RowInv'
  BY <1>5 DEF Charge, Answer
<1>6. ASSUME NEW c \in Clients, Remove(c)
      PROVE  TypeOK' /\ RowInv'
  <2>1. stuck' \in [Users -> Nat] /\ faults' \in 0..MaxFaults
    BY <1>6 DEF Remove, LeaveRow
  <2>2. row' = [row EXCEPT ![c] = FALSE] /\ Answer(c)
    BY <1>6 DEF Remove, LeaveRow
  <2>3. UNCHANGED <<queued, running, parked, stale, stopping, spent, worker, ghosts>>
    BY <1>6 DEF Remove
  <2>4. QED
    BY <2>1, <2>2, <2>3 DEF Answer
<1>7. ASSUME NEW c \in Clients, Push(c)
      PROVE  TypeOK' /\ RowInv'
  <2>1. /\ queued' \in [Users -> Nat]
        /\ stale' \in Nat /\ strays' \in Nat /\ cuts' \in Nat /\ faults' \in 0..MaxFaults
    BY <1>7 DEF Push
  <2>2. /\ row' = [row EXCEPT ![c] = FALSE]
        /\ todo' = [todo EXCEPT ![c] = @ - 1]
        /\ Goto(c, IF todo[c] = 1 THEN "idle" ELSE "insert")
        /\ UNCHANGED <<running, stuck, parked, stopping, spent, worker>>
    BY <1>7 DEF Push
  <2>3. todo[c] \in 1..BatchMax
    BY <1>7 DEF Push
  <2>4. QED
    BY <2>1, <2>2, <2>3
<1>8. ASSUME NEW c \in Clients, Abandon(c)
      PROVE  TypeOK' /\ RowInv'
  BY <1>8 DEF Abandon, Answer, LeaveRow
<1>9. ASSUME NEW c \in Clients, DeleteInHand(c)
      PROVE  TypeOK' /\ RowInv'
  BY <1>9 DEF DeleteInHand
<1>10. ASSUME NEW u \in Users, Delete(u)
       PROVE  TypeOK' /\ RowInv'
  BY <1>10 DEF Delete, DeleteQueued, DeleteRunning, DeleteStuck, DeleteParked
<1>11. ASSUME NEW u \in Users, Take(u) \/ LosePop(u) \/ Finish(u) \/ Lose(u)
       PROVE  TypeOK' /\ RowInv'
  <2>1. CASE Take(u) BY <2>1 DEF Take
  <2>2. CASE LosePop(u) BY <2>2 DEF LosePop
  <2>3. CASE Finish(u) BY <2>3 DEF Finish
  <2>4. CASE Lose(u) BY <2>4 DEF Lose
  <2>5. QED
    BY <1>11, <2>1, <2>2, <2>3, <2>4
<1>12. ASSUME TakeStale \/ FinishStale
       PROVE  TypeOK' /\ RowInv'
  BY <1>12 DEF TakeStale, FinishStale
<1>13. ASSUME Recover \/ RecoveryFails \/ Crash
       PROVE  TypeOK' /\ RowInv'
  <2>1. CASE Recover BY <2>1 DEF Recover
  <2>2. CASE RecoveryFails BY <2>2 DEF RecoveryFails, CutShort
  <2>3. CASE Crash
    <3>1. stale' \in Nat /\ cuts' \in Nat
      BY <2>3 DEF Crash, CutShort
    <3>2. QED
      BY <2>3, <3>1, InHandType DEF Crash
  <2>4. QED
    BY <1>13, <2>1, <2>2, <2>3
<1>14. CASE UNCHANGED vars
  BY <1>14 DEF vars
<1>15. QED
  BY <1>1, <1>2, <1>3, <1>4, <1>5, <1>6, <1>7, <1>8, <1>9, <1>10, <1>11, <1>12,
     <1>13, <1>14 DEF Next, Step

-----------------------------------------------------------------------------
(* Room for what was let in. *)

\* The jobs in the lists are a number.
LEMMA ListTypes ==
  ASSUME TypeOK, NEW u \in Users
  PROVE  InLists(u) \in Nat /\ InHand(u) \in Nat
BY InHandType DEF TypeOK, InLists

\* The users whose jobs a request does not touch keep their pledges.
LEMMA NotMore ==
  ASSUME NEW u \in Users, PledgeInv,
         InLists(u) \in Nat, InLists(u)' \in Nat, InLists(u)' <= InLists(u),
         Pledged(u)' \in SUBSET Pledged(u), ClientsOf(u) # {},
         MaxOutstanding + Excess(u) \in Int
  PROVE  InLists(u)' + Cardinality(Pledged(u)') <= MaxOutstanding + Excess(u)
<1>1. /\ Cardinality(Pledged(u)) \in Nat
      /\ Cardinality(Pledged(u)') \in Nat
      /\ Cardinality(Pledged(u)') <= Cardinality(Pledged(u))
  BY PledgedFinite, FS_Subset
<1>2. InLists(u) + Cardinality(Pledged(u)) <= MaxOutstanding + Excess(u)
  BY DEF PledgeInv
<1>3. QED
  BY <1>1, <1>2

\* A job more in the lists takes the place of a text that was pledged.
LEMMA OneMore ==
  ASSUME NEW u \in Users, PledgeInv, NEW x \in Pledged(u),
         InLists(u) \in Nat, InLists(u)' = InLists(u) + 1,
         Pledged(u)' \in SUBSET Pledged(u), x \notin Pledged(u)', ClientsOf(u) # {},
         MaxOutstanding + Excess(u) \in Int
  PROVE  InLists(u)' + Cardinality(Pledged(u)') <= MaxOutstanding + Excess(u)
<1>1. /\ Cardinality(Pledged(u)) \in Nat
      /\ Cardinality(Pledged(u)') \in Nat
      /\ Cardinality(Pledged(u)') + 1 <= Cardinality(Pledged(u))
  BY PledgedFinite, Smaller
<1>2. InLists(u) + Cardinality(Pledged(u)) <= MaxOutstanding + Excess(u)
  BY DEF PledgeInv
<1>3. QED
  BY <1>1, <1>2

\* The bound is a number.
LEMMA ExcessType ==
  ASSUME NEW u \in Users
  PROVE  MaxOutstanding + Excess(u) \in Int
BY ClientsFinite, AdmissionAssumption DEF Excess

\* A request that is let in saw room for all it asks for; what the other
\* requests of its user were promised meanwhile is a batch each.
LEMMA LetIn ==
  ASSUME TypeOK, RowInv, NEW c \in Clients, CountRows(c), NEW u \in Users, UserOf[c] = u,
         Fits(u, todo[c])
  PROVE  InLists(u)' + Cardinality(Pledged(u)') <= MaxOutstanding + Excess(u)
<1> DEFINE Others == ClientsOf(u) \ {c}
           New == {c} \X (1..todo[c])
           Old == Others \X (1..BatchMax)
<1>1. c \in ClientsOf(u) /\ todo[c] \in Nat /\ BatchMax \in Nat /\ MaxOutstanding \in Nat
  BY AdmissionAssumption DEF ClientsOf, TypeOK
<1>2. /\ IsFiniteSet(Others)
      /\ Cardinality(Others) = Cardinality(ClientsOf(u)) - 1
      /\ Cardinality(Others) \in Nat
  BY <1>1, ClientsFinite, FS_RemoveElement, FS_CardinalityType
<1>3. IsFiniteSet(Old) /\ Cardinality(Old) = Excess(u) /\ Cardinality(Old) \in Nat
  <2>1. IsFiniteSet(Old) /\ Cardinality(Old) = Cardinality(Others) * BatchMax
    BY <1>1, <1>2, ProductSize
  <2>2. QED
    BY <2>1, <1>2, FS_CardinalityType DEF Excess
<1>4. IsFiniteSet(New) /\ Cardinality(New) = todo[c]
  <2>1. IsFiniteSet({c}) /\ Cardinality({c}) = 1
    BY FS_Singleton
  <2>2. IsFiniteSet(New) /\ Cardinality(New) = 1 * todo[c]
    BY <1>1, <2>1, ProductSize
  <2>3. QED
    BY <1>1, <2>2
<1>5. Pledged(u)' \in SUBSET (Old \cup New)
  <2>1. todo' = todo
    BY DEF CountRows, Answer
  <2>2. QED
    BY <2>1 DEF Pledged, ClientsOf
<1>6. /\ IsFiniteSet(Old \cup New)
      /\ Cardinality(Old \cup New) <= Excess(u) + todo[c]
  <2>1. /\ IsFiniteSet(Old \cup New)
        /\ Cardinality(Old \cup New) = Cardinality(Old) + Cardinality(New) - Cardinality(Old \cap New)
    BY <1>3, <1>4, FS_Union
  <2>2. Cardinality(Old \cap New) = 0
    <3>1. Old \cap New = {}
      OBVIOUS
    <3>2. QED
      BY <3>1, FS_EmptySet
  <2>3. QED
    <3> HIDE DEF Old, New
    <3>1. QED
      BY <1>1, <1>3, <1>4, <2>1, <2>2
<1>7. Cardinality(Pledged(u)') <= Excess(u) + todo[c]
  <2>1. Cardinality(Pledged(u)') <= Cardinality(Old \cup New)
    BY <1>5, <1>6, FS_Subset
  <2>2. Cardinality(Old \cup New) \in Nat
    BY <1>6, FS_CardinalityType
  <2>3. QED
    BY <1>1, <1>3, <1>6, <2>1, <2>2, PledgedFinite
<1>8. InLists(u) + InHand(u) + todo[c] <= MaxOutstanding
  BY DEF Fits, Outstanding, InLists, TypeOK
<1>9. InLists(u)' = InLists(u)
  BY DEF CountRows, jobs, InLists
<1>10. QED
  BY <1>1, <1>3, <1>7, <1>8, <1>9, ListTypes, PledgedFinite

\* Every step keeps the room: what joins the lists was pledged before, and what
\* is pledged was let in by CountRows.
LEMMA PledgeStep ==
  ASSUME IInv, [Next]_vars, TypeOK', RowInv'
  PROVE  PledgeInv'
<1> SUFFICES ASSUME NEW u \in Users, ClientsOf(u) # {}
             PROVE  InLists(u)' + Cardinality(Pledged(u)') <= MaxOutstanding + Excess(u)
  BY DEF PledgeInv, ClientsOf, Excess
<1> USE DEF IInv
<1>a. InLists(u) \in Nat /\ InHand(u) \in Nat /\ MaxOutstanding + Excess(u) \in Int
  BY ListTypes, ExcessType
<1>b. InLists(u)' \in Nat
  BY DEF TypeOK, InLists
<1>same. ASSUME InLists(u)' <= InLists(u), Pledged(u)' \in SUBSET Pledged(u)
         PROVE  InLists(u)' + Cardinality(Pledged(u)') <= MaxOutstanding + Excess(u)
  BY <1>a, <1>b, <1>same, NotMore
\* A request that is answered pledges nothing any more, not even its row.
<1>quit. ASSUME NEW c \in Clients, Answer(c), LeaveRow(c), UNCHANGED <<queued, running, parked>>
         PROVE  InLists(u)' + Cardinality(Pledged(u)') <= MaxOutstanding + Excess(u)
  <2>1. Pledged(u)' \in SUBSET Pledged(u)
    BY <1>quit DEF Pledged, Answer, Goto, Admitted, InLoop, TypeOK, ClientsOf
  <2>2. CASE UserOf[c] = u /\ row[c]
    <3>1. InLists(u)' = InLists(u) + 1
      BY <1>quit, <2>2 DEF LeaveRow, InLists, TypeOK
    <3>2. <<c, 1>> \in Pledged(u)
      BY <2>2, AdmissionAssumption DEF Pledged, RowInv, TypeOK, Admitted, InLoop, ClientsOf
    <3>3. <<c, 1>> \notin Pledged(u)'
      BY <1>quit DEF Pledged, Answer, Goto, Admitted, InLoop, TypeOK
    <3>4. QED
      BY <1>a, <2>1, <3>1, <3>2, <3>3, OneMore
  <2>3. CASE ~(UserOf[c] = u /\ row[c])
    <3>1. InLists(u)' = InLists(u)
      BY <1>quit, <2>3, AdmissionAssumption DEF LeaveRow, InLists, TypeOK
    <3>2. QED
      BY <1>a, <2>1, <3>1, <1>same
  <2>4. QED
    BY <2>2, <2>3
<1>1. ASSUME NEW c \in Clients, Begin(c)
      PROVE  InLists(u)' + Cardinality(Pledged(u)') <= MaxOutstanding + Excess(u)
  <2>1. Pledged(u)' \in SUBSET Pledged(u)
    BY <1>1 DEF Begin, Pledged, Goto, Admitted, InLoop, TypeOK, ClientsOf
  <2>2. InLists(u)' = InLists(u)
    BY <1>1 DEF Begin, jobs, InLists
  <2>3. QED
    BY <1>a, <2>1, <2>2, <1>same
<1>2. ASSUME NEW c \in Clients, CountRows(c)
      PROVE  InLists(u)' + Cardinality(Pledged(u)') <= MaxOutstanding + Excess(u)
  <2>1. CASE UserOf[c] = u /\ Fits(u, todo[c])
    BY <1>2, <2>1, LetIn
  <2>2. CASE ~(UserOf[c] = u /\ Fits(u, todo[c]))
    <3>1. Pledged(u)' \in SUBSET Pledged(u)
      <4>1. CASE UserOf[c] = u
        BY <1>2, <2>2, <4>1
        DEF CountRows, Answer, Pledged, Goto, Admitted, InLoop, TypeOK, ClientsOf
      <4>2. CASE UserOf[c] # u
        BY <1>2, <4>2
        DEF CountRows, Answer, Pledged, Goto, Admitted, InLoop, TypeOK, ClientsOf
      <4>3. QED
        BY <4>1, <4>2
    <3>2. InLists(u)' = InLists(u)
      BY <1>2 DEF CountRows, jobs, InLists
    <3>3. QED
      BY <1>a, <3>1, <3>2, <1>same
  <2>3. QED
    BY <2>1, <2>2
<1>3. ASSUME NEW c \in Clients, CheckDepth(c) \/ Insert(c) \/ Charge(c) \/ DeleteInHand(c)
      PROVE  InLists(u)' + Cardinality(Pledged(u)') <= MaxOutstanding + Excess(u)
  <2>1. Pledged(u)' \in SUBSET Pledged(u)
    BY <1>3 DEF CheckDepth, Insert, Charge, DeleteInHand, Answer, Pledged, Goto, Admitted,
                InLoop, TypeOK, ClientsOf
  <2>2. InLists(u)' = InLists(u)
    BY <1>3 DEF CheckDepth, Insert, Charge, DeleteInHand, jobs, InLists
  <2>3. QED
    BY <1>a, <2>1, <2>2, <1>same
<1>4. ASSUME NEW c \in Clients, Remove(c)
      PROVE  InLists(u)' + Cardinality(Pledged(u)') <= MaxOutstanding + Excess(u)
  <2>1. CASE LeaveRow(c)
    BY <1>4, <2>1, <1>quit DEF Remove
  <2>2. CASE UNCHANGED stuck
    <3>1. Pledged(u)' \in SUBSET Pledged(u)
      BY <1>4 DEF Remove, Answer, Pledged, Goto, Admitted, InLoop, TypeOK, ClientsOf
    <3>2. InLists(u)' = InLists(u)
      BY <1>4, <2>2 DEF Remove, InLists
    <3>3. QED
      BY <1>a, <3>1, <3>2, <1>same
  <2>3. QED
    BY <1>4, <2>1, <2>2 DEF Remove
<1>5. ASSUME NEW c \in Clients, Push(c)
      PROVE  InLists(u)' + Cardinality(Pledged(u)') <= MaxOutstanding + Excess(u)
  <2>1. todo[c] \in Nat /\ todo[c] > 0 /\ todo[c] <= BatchMax
    BY <1>5 DEF Push, RowInv, TypeOK
  <2>2. Pledged(u)' \in SUBSET Pledged(u)
    BY <1>5, <2>1 DEF Push, Pledged, Goto, Admitted, InLoop, TypeOK, ClientsOf
  <2>3. CASE UserOf[c] = u /\ row[c]
    <3>1. InLists(u)' = InLists(u) + 1
      BY <1>5, <2>3 DEF Push, InLists, TypeOK
    <3>2. <<c, todo[c]>> \in Pledged(u)
      BY <1>5, <2>1, <2>3 DEF Push, Pledged, Admitted, InLoop, ClientsOf
    <3>3. <<c, todo[c]>> \notin Pledged(u)'
      BY <1>5, <2>1 DEF Push, Pledged, Goto, TypeOK
    <3>4. QED
      BY <1>a, <2>2, <3>1, <3>2, <3>3, OneMore
  <2>4. CASE ~(UserOf[c] = u /\ row[c])
    <3>1. InLists(u)' = InLists(u)
      BY <1>5, <2>4 DEF Push, InLists, TypeOK
    <3>2. QED
      BY <1>a, <2>2, <3>1, <1>same
  <2>5. QED
    BY <2>3, <2>4
<1>6. ASSUME NEW c \in Clients, Abandon(c)
      PROVE  InLists(u)' + Cardinality(Pledged(u)') <= MaxOutstanding + Excess(u)
  BY <1>6, <1>quit DEF Abandon
<1>7. ASSUME NEW v \in Users, Delete(v) \/ Take(v) \/ LosePop(v) \/ Finish(v) \/ Lose(v)
      PROVE  InLists(u)' + Cardinality(Pledged(u)') <= MaxOutstanding + Excess(u)
  <2>1. Pledged(u)' = Pledged(u)
    BY <1>7 DEF Delete, DeleteQueued, DeleteRunning, DeleteStuck, DeleteParked, Take, LosePop,
                Finish, Lose, request, Pledged, ClientsOf
  <2>2. InLists(u)' <= InLists(u)
    BY <1>7 DEF Delete, DeleteQueued, DeleteRunning, DeleteStuck, DeleteParked, Take, LosePop,
                Finish, Lose, InLists, TypeOK
  <2>3. QED
    BY <1>a, <2>1, <2>2, <1>same
<1>8. ASSUME TakeStale \/ FinishStale \/ Recover \/ RecoveryFails \/ UNCHANGED vars
      PROVE  InLists(u)' + Cardinality(Pledged(u)') <= MaxOutstanding + Excess(u)
  <2>1. Pledged(u)' = Pledged(u) /\ InLists(u)' = InLists(u)
    <3>1. CASE Recover
      BY <3>1 DEF Recover, request, Pledged, ClientsOf, InLists, TypeOK
    <3>2. CASE TakeStale \/ FinishStale \/ RecoveryFails \/ UNCHANGED vars
      BY <3>2 DEF TakeStale, FinishStale, RecoveryFails, vars, jobs, request, Pledged, ClientsOf,
         InLists
    <3>3. QED
      BY <1>8, <3>1, <3>2
  <2>2. QED
    BY <1>a, <2>1, <1>same
<1>9. ASSUME Crash
      PROVE  InLists(u)' + Cardinality(Pledged(u)') <= MaxOutstanding + Excess(u)
  <2>1. Pledged(u)' = {}
    BY <1>9 DEF Crash, Pledged, Admitted, InLoop, ClientsOf
  <2>2. Cardinality(Pledged(u)') = 0
    BY <2>1, FS_EmptySet
  <2>3. InLists(u)' = InLists(u) + InHand(u)
    BY <1>9, <1>a DEF Crash, InLists, TypeOK
  <2>4. InHand(u) <= Cardinality(Pledged(u)) /\ Cardinality(Pledged(u)) \in Nat
    BY InHandPledged, PledgedFinite
  <2>5. InLists(u) + Cardinality(Pledged(u)) <= MaxOutstanding + Excess(u)
    BY DEF PledgeInv
  <2>6. QED
    BY <1>a, <2>2, <2>3, <2>4, <2>5
<1>10. QED
  BY <1>1, <1>2, <1>3, <1>4, <1>5, <1>6, <1>7, <1>8, <1>9 DEF Next, Step

\* Nothing is pledged at first.
LEMMA InitPledges == Init => PledgeInv
<1> SUFFICES ASSUME Init, NEW u \in Users, ClientsOf(u) # {}
             PROVE  InLists(u) + Cardinality(Pledged(u)) <= MaxOutstanding + Excess(u)
  BY DEF PledgeInv
<1>1. Pledged(u) = {}
  BY DEF Init, Pledged, Admitted, InLoop, ClientsOf
<1>2. InLists(u) = 0 /\ Cardinality(Pledged(u)) = 0
  BY <1>1, FS_EmptySet DEF Init, InLists
<1>3. Cardinality(ClientsOf(u)) \in Nat /\ Cardinality(ClientsOf(u)) # 0
  BY ClientsFinite, FS_EmptySet
<1>4. Excess(u) \in Nat
  BY <1>3, AdmissionAssumption DEF Excess
<1>5. QED
  BY <1>2, <1>4, AdmissionAssumption

-----------------------------------------------------------------------------
\* The variables of the admission of jobs keep their types: counts of jobs stay
\* natural numbers, so that none is taken away that was not there.
THEOREM TypeCorrect == Spec => []TypeOK
<1>1. Init => TypeOK /\ RowInv
  BY InitTypes
<1>2. (TypeOK /\ RowInv) /\ [Next]_vars => (TypeOK /\ RowInv)'
  BY TypeStep
<1>3. QED
  BY <1>1, <1>2, PTL DEF Spec

\* Whatever fails and however requests interleave, the outstanding jobs of a
\* user exceed the limit by at most a batch for each request beyond one.
THEOREM LimitExceededByLittle == Spec => []OutstandingBound
<1>1. Init => IInv
  BY InitTypes, InitPledges DEF IInv
<1>2. IInv /\ [Next]_vars => IInv'
  BY TypeStep, PledgeStep DEF IInv
<1>3. IInv => OutstandingBound
  <2> SUFFICES ASSUME IInv, NEW u \in Users, ClientsOf(u) # {}
               PROVE  Outstanding(u) <= MaxOutstanding + Excess(u)
    BY DEF OutstandingBound, Excess
  <2>1. /\ InHand(u) <= Cardinality(Pledged(u))
        /\ Cardinality(Pledged(u)) \in Nat
        /\ InLists(u) \in Nat /\ InHand(u) \in Nat
        /\ MaxOutstanding + Excess(u) \in Int
    BY InHandPledged, PledgedFinite, ListTypes, ExcessType DEF IInv
  <2>2. InLists(u) + Cardinality(Pledged(u)) <= MaxOutstanding + Excess(u)
    BY DEF IInv, PledgeInv
  <2>3. Outstanding(u) = InLists(u) + InHand(u)
    BY InHandType DEF Outstanding, InLists, IInv, TypeOK
  <2>4. QED
    BY <2>1, <2>2, <2>3
<1>4. QED
  BY <1>1, <1>2, <1>3, PTL DEF Spec

-----------------------------------------------------------------------------
(* The queue. *)

\* The jobs of all users, as Total counts them.
Numbered(count) == UNION {{u} \X (1..count[u]) : u \in Users}

LEMMA NumberedPairs ==
  ASSUME NEW f, NEW x
  PROVE  x \in Numbered(f) <=> x = <<x[1], x[2]>> /\ x[1] \in Users /\ x[2] \in 1..f[x[1]]
BY DEF Numbered

\* They are finitely many.
LEMMA NumberedFinite ==
  ASSUME NEW f \in [Users -> Nat]
  PROVE  /\ IsFiniteSet(Numbered(f)) /\ Total(f) = Cardinality(Numbered(f)) /\ Total(f) \in Nat
<1> DEFINE Kinds == {{u} \X (1..f[u]) : u \in Users}
           pairs == [u \in Users |-> {u} \X (1..f[u])]
<1>1. IsFiniteSet(Users)
  BY AdmissionAssumption
<1>2. pairs \in Surjection(Users, Kinds)
  <2>1. pairs \in [Users -> Kinds] /\ \A T \in Kinds : \E u \in Users : pairs[u] = T
    OBVIOUS
  <2>2. QED
    BY <2>1 DEF Surjection
<1>3. IsFiniteSet(Kinds)
  BY <1>1, <1>2, FS_Surjection
<1>4. ASSUME NEW u \in Users PROVE IsFiniteSet({u} \X (1..f[u]))
  <2>1. IsFiniteSet({u}) /\ f[u] \in Nat
    BY FS_Singleton
  <2>2. QED
    BY <2>1, ProductSize
<1>5. \A T \in Kinds : IsFiniteSet(T)
  BY <1>4
<1>6. IsFiniteSet(UNION Kinds)
  <2> HIDE DEF Kinds
  <2>1. QED
    BY <1>3, <1>5, FS_UNION
<1>7. Numbered(f) = UNION Kinds
  BY DEF Numbered
<1>8. QED
  BY <1>6, <1>7, FS_CardinalityType DEF Total, Numbered

\* A job more of a user is one more in all.
LEMMA OneJobMore ==
  ASSUME NEW f \in [Users -> Nat], NEW u \in Users
  PROVE  Total([f EXCEPT ![u] = @ + 1]) = Total(f) + 1
<1> DEFINE g == [f EXCEPT ![u] = @ + 1]
<1>1. g \in [Users -> Nat] /\ g[u] = f[u] + 1 /\ f[u] \in Nat /\ \A v \in Users \ {u} : g[v] = f[v]
  OBVIOUS
<1> HIDE DEF g
<1>2. Numbered(g) = Numbered(f) \cup {<<u, g[u]>>}
  <2>1. ASSUME NEW x PROVE x \in Numbered(g) <=> x \in Numbered(f) \cup {<<u, g[u]>>}
    <3>1. CASE x[1] = u
      BY <1>1, <3>1, NumberedPairs
    <3>2. CASE x[1] # u
      BY <1>1, <3>2, NumberedPairs
    <3>3. QED
      BY <3>1, <3>2
  <2>2. QED
    BY <2>1
<1>3. <<u, g[u]>> \notin Numbered(f)
  BY <1>1, NumberedPairs
<1>4. Cardinality(Numbered(g)) = Cardinality(Numbered(f)) + 1
  BY <1>2, <1>3, NumberedFinite, FS_AddElement
<1>5. QED
  BY <1>1, <1>4, NumberedFinite DEF g

\* One less is one less.
LEMMA OneJobLess ==
  ASSUME NEW f \in [Users -> Nat], NEW u \in Users, f[u] > 0
  PROVE  Total([f EXCEPT ![u] = @ - 1]) = Total(f) - 1
<1> DEFINE g == [f EXCEPT ![u] = @ - 1]
           h == [g EXCEPT ![u] = @ + 1]
<1>1. g \in [Users -> Nat] /\ g[u] + 1 = f[u] /\ \A v \in Users \ {u} : g[v] = f[v]
  OBVIOUS
<1>2. h = f
  <2>1. h \in [Users -> Nat] /\ h[u] = f[u] /\ \A v \in Users \ {u} : h[v] = f[v]
    BY <1>1
  <2> HIDE DEF h
  <2>2. QED
    BY <2>1
<1> HIDE DEF g
<1>3. Total(f) = Total(g) + 1
  BY <1>1, <1>2, OneJobMore
<1>4. Total(g) = Total(f) - 1
  BY <1>1, <1>3, NumberedFinite
<1>5. QED
  BY <1>4 DEF g

\* Nobody has a job.
LEMMA NoJobs == Total([u \in Users |-> 0]) = 0
<1>1. UNION {{u} \X (1..[v \in Users |-> 0][u]) : u \in Users} = {}
  OBVIOUS
<1>2. QED
  BY <1>1, FS_EmptySet DEF Total

\* The jobs of two kinds together are as many.
LEMMA TwoKinds ==
  ASSUME NEW f \in [Users -> Nat], NEW g \in [Users -> Nat]
  PROVE  Total([u \in Users |-> f[u] + g[u]]) <= Total(f) + Total(g)
<1> DEFINE both == [u \in Users |-> f[u] + g[u]]
           moved == [x \in Numbered(g) |-> <<x[1], f[x[1]] + x[2]>>]
           Moved == {moved[x] : x \in Numbered(g)}
<1>1. both \in [Users -> Nat] /\ \A u \in Users : both[u] = f[u] + g[u]
  OBVIOUS
<1>2. IsFiniteSet(Moved) /\ Cardinality(Moved) <= Cardinality(Numbered(g))
  <2>1. moved \in Surjection(Numbered(g), Moved)
    <3>1. moved \in [Numbered(g) -> Moved] /\ \A y \in Moved : \E x \in Numbered(g) : moved[x] = y
      OBVIOUS
    <3>2. QED
      BY <3>1 DEF Surjection
  <2>2. QED
    BY <2>1, NumberedFinite, FS_Surjection
<1>3. Numbered(both) \in SUBSET (Numbered(f) \cup Moved)
  <2> SUFFICES ASSUME NEW x \in Numbered(both), x \notin Numbered(f)
               PROVE  x \in Moved
    OBVIOUS
  <2>1. x = <<x[1], x[2]>> /\ x[1] \in Users /\ x[2] \in 1..(f[x[1]] + g[x[1]])
    BY <1>1, NumberedPairs
  <2>2. f[x[1]] \in Nat /\ g[x[1]] \in Nat /\ x[2] > f[x[1]]
    BY <2>1, NumberedPairs
  <2> DEFINE y == <<x[1], x[2] - f[x[1]]>>
  <2>3. y \in Numbered(g)
    BY <2>1, <2>2, NumberedPairs
  <2>4. moved[y] = x
    BY <2>1, <2>2, <2>3
  <2>5. QED
    BY <2>3, <2>4
<1> HIDE DEF both, Moved
<1>4. /\ IsFiniteSet(Numbered(f) \cup Moved)
      /\ Cardinality(Numbered(f) \cup Moved) <= Cardinality(Numbered(f)) + Cardinality(Moved)
  <2>1. /\ IsFiniteSet(Numbered(f) \cup Moved)
        /\ Cardinality(Numbered(f) \cup Moved)
             = Cardinality(Numbered(f)) + Cardinality(Moved) - Cardinality(Numbered(f) \cap Moved)
    BY <1>2, NumberedFinite, FS_Union
  <2>2. Cardinality(Numbered(f) \cap Moved) \in Nat
    BY <1>2, NumberedFinite, FS_Intersection, FS_CardinalityType
  <2>3. Cardinality(Numbered(f)) \in Nat /\ Cardinality(Moved) \in Nat
    BY <1>2, NumberedFinite, FS_CardinalityType
  <2>4. QED
    BY <2>1, <2>2, <2>3
<1>5. Cardinality(Numbered(both)) <= Cardinality(Numbered(f) \cup Moved)
  BY <1>3, <1>4, FS_Subset
<1>6. /\ Cardinality(Numbered(f) \cup Moved) \in Nat /\ Cardinality(Moved) \in Nat
      /\ Total(f) = Cardinality(Numbered(f)) /\ Total(g) = Cardinality(Numbered(g))
      /\ Total(both) = Cardinality(Numbered(both))
      /\ Total(f) \in Nat /\ Total(g) \in Nat /\ Total(both) \in Nat
  BY <1>1, <1>2, <1>4, NumberedFinite, FS_CardinalityType
<1>7. QED
  BY <1>2, <1>4, <1>5, <1>6 DEF both

\* The texts of requests that saw room in the queue and have not queued them.
MayPush == {x \in Clients \X (1..BatchMax) : pc[x[1]] \in InLoop /\ x[2] <= todo[x[1]]}

\* What a recovery may add to the queue beyond its cap, and what is let in.
PutBack == (1 + cuts) * (JobConcurrency + strays)
Cap     == MaxQueueDepth + (Cardinality(Clients) - 1) * BatchMax

\* A worker that runs has left no more in processing than went astray; without
\* one nothing runs, and what ran is there too.
ParkedInv ==
  /\ worker = "runs" => Inflight <= JobConcurrency /\ Parked <= strays
  /\ worker # "runs" => Inflight = 0 /\ Parked <= JobConcurrency + strays

\* The inductive invariant counts what a restart puts back as if it were in the
\* queue, and the texts that are on their way to it.
RoomInv ==
  /\ ParkedInv
  /\ Depth + Inflight + Parked + Cardinality(MayPush) <= Cap + PutBack

LEMMA MayPushFinite ==
  /\ IsFiniteSet(MayPush) /\ Cardinality(MayPush) \in Nat
  /\ IsFiniteSet(MayPush') /\ Cardinality(MayPush') \in Nat
<1>1. IsFiniteSet(Clients \X (1..BatchMax))
  BY AdmissionAssumption, ProductSize
<1>2. /\ MayPush \in SUBSET (Clients \X (1..BatchMax))
      /\ MayPush' \in SUBSET (Clients \X (1..BatchMax))
  BY DEF MayPush
<1>3. QED
  BY <1>1, <1>2, FS_Subset, FS_CardinalityType

\* The cap is a number, and no less than 0 if anybody can send a request.
LEMMA CapType == Cap \in Int /\ (Clients # {} => Cap \in Nat)
<1>1. Cardinality(Clients) \in Nat /\ (Clients # {} => Cardinality(Clients) # 0)
  BY AdmissionAssumption, FS_CardinalityType, FS_EmptySet
<1>2. Cardinality(Clients) - 1 \in Int /\ (Clients # {} => Cardinality(Clients) - 1 \in Nat)
  BY <1>1
<1>3. /\ (Cardinality(Clients) - 1) * BatchMax \in Int
      /\ Clients # {} => (Cardinality(Clients) - 1) * BatchMax \in Nat
  BY <1>2, AdmissionAssumption
<1>4. QED
  BY <1>3, AdmissionAssumption DEF Cap

\* What may be put back grows with what goes astray and with recoveries cut short.
LEMMA PutBackGrows ==
  ASSUME NEW k \in Nat, NEW j \in Nat, NEW n \in Nat
  PROVE  /\ (1 + k) * (j + n) \in Nat
         /\ (1 + k) * (j + n) >= j + n
         /\ (1 + k) * (j + (n + 1)) >= (1 + k) * (j + n) + 1
         /\ (1 + (k + 1)) * (j + n) = (1 + k) * (j + n) + (j + n)
<1>1. (1 + k) * (j + n) = (j + n) + k * (j + n) /\ k * (j + n) \in Nat
  OBVIOUS
<1>2. (1 + k) * (j + (n + 1)) = (1 + k) * (j + n) + (1 + k)
  OBVIOUS
<1>3. (1 + (k + 1)) * (j + n) = (1 + k) * (j + n) + (j + n)
  OBVIOUS
<1>4. QED
  BY <1>1, <1>2, <1>3

\* What is counted are numbers.
LEMMA DepthTypes ==
  ASSUME TypeOK
  PROVE  /\ Total(queued) \in Nat /\ Total(running) \in Nat /\ Total(parked) \in Nat
         /\ Depth \in Nat /\ Inflight \in Nat /\ Parked \in Nat
         /\ JobConcurrency \in Nat /\ PutBack \in Nat
BY NumberedFinite, AdmissionAssumption, PutBackGrows
DEF TypeOK, Depth, Inflight, Parked, PutBack

\* And so they are after a step.
LEMMA NextTypes ==
  ASSUME TypeOK'
  PROVE  /\ Total(queued') \in Nat /\ Total(running') \in Nat /\ Total(parked') \in Nat
         /\ Depth' = stale' + Total(queued') /\ Depth' \in Nat
         /\ Inflight' = stopping' + Total(running') /\ Inflight' \in Nat
         /\ Parked' = spent' + Total(parked') /\ Parked' \in Nat
<1>1. /\ Total(queued)' = Total(queued') /\ Total(running)' = Total(running')
      /\ Total(parked)' = Total(parked')
  BY DEF Total
<1>2. Total(queued') \in Nat /\ Total(running') \in Nat /\ Total(parked') \in Nat
  BY NumberedFinite DEF TypeOK
<1>3. QED
  BY <1>1, <1>2 DEF TypeOK, Depth, Inflight, Parked

\* A step that moves ids between the lists, or ends some, and lists or leaves d
\* of them, one at most, once more than meant.
LEMMA NoMoreRoom ==
  ASSUME RoomInv, TypeOK, TypeOK', ParkedInv', NEW d \in {0, 1}, strays' = strays + d, cuts' = cuts,
         Depth' + Inflight' + Parked' + Cardinality(MayPush')
           <= Depth + Inflight + Parked + Cardinality(MayPush) + d
  PROVE  RoomInv'
<1>1. Cap' = Cap /\ Cap \in Int
  BY CapType DEF Cap
<1>2. PutBack' >= PutBack + d /\ PutBack' \in Nat /\ PutBack \in Nat
  BY PutBackGrows, AdmissionAssumption DEF PutBack, TypeOK
<1>3. QED
  BY <1>1, <1>2, MayPushFinite, DepthTypes, NextTypes DEF RoomInv

\* A recovery that is cut short lists again what is in processing.
LEMMA ListedAgain ==
  ASSUME RoomInv, TypeOK, TypeOK', ParkedInv', CutShort, strays' = strays,
         Depth' = Depth + (stale' - stale), Inflight' + Parked' <= Inflight + Parked,
         Cardinality(MayPush') <= Cardinality(MayPush)
  PROVE  RoomInv'
<1>1. Cap' = Cap /\ Cap \in Int
  BY CapType DEF Cap
<1>2. PutBack' = PutBack + (JobConcurrency + strays) /\ PutBack' \in Nat /\ PutBack \in Nat
  BY PutBackGrows, AdmissionAssumption DEF PutBack, TypeOK, CutShort
<1>3. stale' - stale <= JobConcurrency + strays /\ stale' \in Nat /\ stale \in Nat /\ strays \in Nat
  BY DepthTypes DEF CutShort, RoomInv, ParkedInv, TypeOK
<1>4. QED
  BY <1>1, <1>2, <1>3, MayPushFinite, DepthTypes, NextTypes DEF RoomInv

\* A request that is let into the queue saw room for all its texts.
LEMMA QueueLetsIn ==
  ASSUME TypeOK, RoomInv, NEW c \in Clients, CheckDepth(c), DepthFits(todo[c])
  PROVE  RoomInv'
<1> DEFINE Others == Clients \ {c}
           New == {c} \X (1..todo[c])
           Old == Others \X (1..BatchMax)
<1>1. /\ todo[c] \in Nat /\ BatchMax \in Nat /\ MaxQueueDepth \in Nat /\ JobConcurrency \in Nat
      /\ IsFiniteSet(Clients)
  BY AdmissionAssumption DEF TypeOK
<1>2. /\ IsFiniteSet(Others)
      /\ Cardinality(Others) = Cardinality(Clients) - 1
      /\ Cardinality(Others) \in Nat
  BY <1>1, FS_RemoveElement, FS_CardinalityType
<1>3. IsFiniteSet(Old) /\ Cardinality(Old) = (Cardinality(Clients) - 1) * BatchMax
  BY <1>1, <1>2, ProductSize
<1>4. IsFiniteSet(New) /\ Cardinality(New) = todo[c]
  <2>1. IsFiniteSet({c}) /\ Cardinality({c}) = 1
    BY FS_Singleton
  <2>2. IsFiniteSet(New) /\ Cardinality(New) = 1 * todo[c]
    BY <1>1, <2>1, ProductSize
  <2>3. QED
    BY <1>1, <2>2
<1>5. MayPush' \in SUBSET (Old \cup New)
  <2>1. todo' = todo \/ todo' = [todo EXCEPT ![c] = 0]
    BY DEF CheckDepth, Answer
  <2>2. QED
    BY <2>1, <1>1 DEF MayPush, TypeOK
<1> HIDE DEF Old, New, Others
<1>6. /\ IsFiniteSet(Old \cup New)
      /\ Cardinality(Old \cup New) = Cardinality(Old) + Cardinality(New) - Cardinality(Old \cap New)
      /\ Cardinality(Old \cap New) \in Nat
  BY <1>3, <1>4, FS_Union, FS_Intersection, FS_CardinalityType
<1>7. Cardinality(MayPush') <= Cardinality(Old \cup New)
  BY <1>5, <1>6, FS_Subset
<1>8. Cardinality(Old) \in Nat /\ Cardinality(New) \in Nat
  BY <1>3, <1>4, FS_CardinalityType
<1>9. /\ Depth' = Depth /\ Inflight' = Inflight /\ Parked' = Parked /\ ParkedInv' = ParkedInv
      /\ Cap' = Cap /\ PutBack' = PutBack
  BY DEF CheckDepth, jobs, ghosts, Depth, Inflight, Parked, Total, Cap, PutBack, ParkedInv
<1>10. Depth + todo[c] <= MaxQueueDepth /\ Inflight + Parked <= PutBack
  <2>1. Inflight + Parked <= JobConcurrency + strays
    BY DepthTypes DEF RoomInv, ParkedInv, TypeOK
  <2>2. JobConcurrency + strays <= PutBack
    BY <1>1, PutBackGrows DEF PutBack, TypeOK
  <2>3. QED
    BY <2>1, <2>2, DepthTypes DEF DepthFits, TypeOK
<1> DEFINE excess == (Cardinality(Clients) - 1) * BatchMax
<1>11. Cap = MaxQueueDepth + excess /\ excess = Cardinality(Old)
  BY <1>3 DEF Cap
<1> HIDE DEF excess
<1>12. QED
  BY <1>1, <1>4, <1>6, <1>7, <1>8, <1>9, <1>10, <1>11, DepthTypes, MayPushFinite DEF RoomInv

\* Every step keeps the room.
LEMMA RoomStep ==
  ASSUME TypeOK, RowInv, RoomInv, [Next]_vars, TypeOK'
  PROVE  RoomInv'
<1>a. /\ JobConcurrency \in Nat
      /\ Depth = stale + Total(queued) /\ Inflight = stopping + Total(running)
      /\ Parked = spent + Total(parked)
      /\ Total(queued) \in Nat /\ Total(running) \in Nat /\ Total(parked) \in Nat
      /\ stale \in Nat /\ stopping \in Nat /\ spent \in Nat /\ strays \in Nat
      /\ queued \in [Users -> Nat] /\ running \in [Users -> Nat] /\ parked \in [Users -> Nat]
  BY DepthTypes DEF TypeOK, Depth, Inflight, Parked
<1>b. /\ Total(queued') \in Nat /\ Total(running') \in Nat /\ Total(parked') \in Nat
      /\ Depth' = stale' + Total(queued')
      /\ Inflight' = stopping' + Total(running')
      /\ Parked' = spent' + Total(parked')
      /\ stale' \in Nat /\ stopping' \in Nat /\ spent' \in Nat /\ strays' \in Nat
  BY NextTypes DEF TypeOK
<1>c. /\ ParkedInv /\ Cardinality(MayPush) \in Nat /\ Cardinality(MayPush') \in Nat
      /\ MayPush' \in SUBSET MayPush => Cardinality(MayPush') <= Cardinality(MayPush)
  BY MayPushFinite, FS_Subset DEF RoomInv
\* How the counts may change without more room being taken.
<1>d. ASSUME ParkedInv', MayPush' \in SUBSET MayPush, NEW d \in {0, 1},
             strays' = strays + d, cuts' = cuts,
             stale' + Total(queued') + stopping' + Total(running') + spent' + Total(parked')
               <= stale + Total(queued) + stopping + Total(running) + spent + Total(parked) + d
      PROVE  RoomInv'
  BY <1>a, <1>b, <1>c, <1>d, NoMoreRoom
<1>same. ASSUME UNCHANGED <<queued, running, parked, stale, stopping, spent, worker, ghosts>>,
                MayPush' \in SUBSET MayPush
         PROVE  RoomInv'
  <2>1. /\ ParkedInv' /\ strays' = strays + 0 /\ cuts' = cuts
        /\ Total(queued') = Total(queued) /\ Total(running') = Total(running)
        /\ Total(parked') = Total(parked)
    BY <1>a, <1>b, <1>c, <1>same DEF ParkedInv, ghosts
  <2>2. QED
    BY <1>a, <1>d, <1>same, <2>1
<1>1. ASSUME NEW c \in Clients, Begin(c) \/ CountRows(c) \/ Insert(c) \/ Charge(c) \/ DeleteInHand(c)
      PROVE  RoomInv'
  <2>1. MayPush' \in SUBSET MayPush
    BY <1>1 DEF Begin, CountRows, Insert, Charge, DeleteInHand, Answer, Goto, MayPush, InLoop, TypeOK
  <2>2. UNCHANGED <<queued, running, parked, stale, stopping, spent, worker, ghosts>>
    BY <1>1 DEF Begin, CountRows, Insert, Charge, DeleteInHand, jobs
  <2>3. QED
    BY <2>1, <2>2, <1>same
<1>2. ASSUME NEW c \in Clients, Remove(c) \/ Abandon(c)
      PROVE  RoomInv'
  <2>1. MayPush' \in SUBSET MayPush
    BY <1>2 DEF Remove, Abandon, Answer, Goto, MayPush, InLoop, TypeOK
  <2>2. UNCHANGED <<queued, running, parked, stale, stopping, spent, worker, ghosts>>
    BY <1>2 DEF Remove, Abandon
  <2>3. QED
    BY <2>1, <2>2, <1>same
<1>3. ASSUME NEW c \in Clients, CheckDepth(c)
      PROVE  RoomInv'
  <2>1. CASE DepthFits(todo[c])
    BY <1>3, <2>1, QueueLetsIn
  <2>2. CASE ~DepthFits(todo[c])
    <3>1. MayPush' \in SUBSET MayPush
      BY <1>3, <2>2 DEF CheckDepth, Answer, Goto, MayPush, InLoop, TypeOK
    <3>2. QED
      BY <1>3, <3>1, <1>same DEF CheckDepth, jobs
  <2>3. QED
    BY <2>1, <2>2
<1>4. ASSUME NEW c \in Clients, Push(c)
      PROVE  RoomInv'
  <2>1. todo[c] \in Nat /\ todo[c] > 0 /\ todo[c] <= BatchMax
    BY <1>4 DEF Push, RowInv, TypeOK
  <2>2. MayPush' \in SUBSET MayPush
    BY <1>4, <2>1 DEF Push, MayPush, Goto, InLoop, TypeOK
  <2>3. <<c, todo[c]>> \in MayPush /\ <<c, todo[c]>> \notin MayPush'
    BY <1>4, <2>1 DEF Push, MayPush, Goto, InLoop, TypeOK
  <2>4. Cardinality(MayPush') + 1 <= Cardinality(MayPush)
    BY <2>2, <2>3, MayPushFinite, Smaller
  <2>5. PICK d \in {0, 1} : /\ stale' = (IF row[c] THEN stale ELSE stale + 1) + d
                            /\ strays' = strays + d /\ cuts' = cuts
    BY <1>a, <1>4 DEF Push, AsMeant, Stray, ghosts
  <2>6. Depth' = Depth + 1 + d
    <3>1. CASE row[c]
      <4>1. UserOf[c] \in Users
        BY AdmissionAssumption
      <4>2. Total(queued') = Total(queued) + 1
        BY <1>a, <1>4, <3>1, <4>1, OneJobMore DEF Push
      <4>3. QED
        BY <1>a, <1>b, <2>5, <3>1, <4>2
    <3>2. CASE ~row[c]
      <4>1. queued' = queued
        BY <1>4, <3>2 DEF Push
      <4>2. QED
        BY <1>a, <1>b, <2>5, <3>2, <4>1
    <3>3. QED
      BY <3>1, <3>2
  <2>7. UNCHANGED <<running, parked, stopping, spent, worker>>
    BY <1>4 DEF Push
  <2>8. ParkedInv'
    BY <1>a, <1>b, <1>c, <2>5, <2>7 DEF ParkedInv
  <2>9. Inflight' = Inflight /\ Parked' = Parked
    BY <1>a, <1>b, <2>7
  <2>10. Depth \in Nat /\ Inflight \in Nat /\ Parked \in Nat
    BY DepthTypes
  <2> HIDE DEF MayPush
  <2>11. Depth' + Inflight' + Parked' + Cardinality(MayPush')
           <= Depth + Inflight + Parked + Cardinality(MayPush) + d
    BY <1>c, <2>4, <2>6, <2>9, <2>10
  <2>12. QED
    BY <2>5, <2>8, <2>11, NoMoreRoom
<1>5. ASSUME NEW u \in Users, Delete(u)
      PROVE  RoomInv'
  <2>1. MayPush' \in SUBSET MayPush
    BY <1>5 DEF Delete, DeleteQueued, DeleteRunning, DeleteStuck, DeleteParked, request, MayPush
  <2>2. strays' = strays + 0 /\ cuts' = cuts /\ worker' = worker
    BY <1>a, <1>5 DEF Delete, DeleteQueued, DeleteRunning, DeleteStuck, DeleteParked, AsMeant, ghosts
  <2>3. /\ stale' + Total(queued') = stale + Total(queued)
        /\ stopping' + Total(running') = stopping + Total(running)
        /\ spent' + Total(parked') = spent + Total(parked)
    <3>1. CASE DeleteQueued(u)
      <4>1. Total(queued') = Total(queued) - 1
        BY <1>a, <3>1, OneJobLess DEF DeleteQueued
      <4>2. QED
        BY <1>a, <3>1, <4>1 DEF DeleteQueued
    <3>2. CASE DeleteRunning(u)
      <4>1. Total(running') = Total(running) - 1
        BY <1>a, <3>2, OneJobLess DEF DeleteRunning
      <4>2. QED
        BY <1>a, <3>2, <4>1 DEF DeleteRunning
    <3>3. CASE DeleteStuck(u)
      BY <3>3 DEF DeleteStuck
    <3>4. CASE DeleteParked(u)
      <4>1. Total(parked') = Total(parked) - 1
        BY <1>a, <3>4, OneJobLess DEF DeleteParked
      <4>2. QED
        BY <1>a, <3>4, <4>1 DEF DeleteParked
    <3>5. QED
      BY <1>5, <3>1, <3>2, <3>3, <3>4 DEF Delete
  <2>4. ParkedInv'
    BY <1>a, <1>b, <1>c, <2>2, <2>3 DEF ParkedInv
  <2>5. QED
    BY <1>a, <1>b, <1>d, <2>1, <2>2, <2>3, <2>4
<1>6. ASSUME NEW u \in Users, Take(u)
      PROVE  RoomInv'
  <2>1. MayPush' \in SUBSET MayPush
    BY <1>6 DEF Take, request, MayPush
  <2>2. /\ strays' = strays + 0 /\ cuts' = cuts
        /\ UNCHANGED <<stale, stopping, spent, parked, worker>>
        /\ worker = "runs" /\ Inflight < JobConcurrency
    BY <1>a, <1>6 DEF Take, Pops, AsMeant, ghosts
  <2>3. Total(queued') = Total(queued) - 1
    BY <1>a, <1>6, OneJobLess DEF Take
  <2>4. Total(running') = Total(running) + 1
    BY <1>a, <1>6, OneJobMore DEF Take
  <2>5. ParkedInv'
    BY <1>a, <1>b, <1>c, <2>2, <2>4 DEF ParkedInv
  <2>6. QED
    BY <1>a, <1>d, <2>1, <2>2, <2>3, <2>4, <2>5
<1>7. ASSUME NEW u \in Users, LosePop(u)
      PROVE  RoomInv'
  <2>1. MayPush' \in SUBSET MayPush
    BY <1>7 DEF LosePop, request, MayPush
  <2>2. /\ strays' = strays + 1 /\ cuts' = cuts
        /\ UNCHANGED <<running, stopping, worker>>
        /\ worker = "runs"
    BY <1>7 DEF LosePop, Pops, Stray
  <2>3. /\ stale' + Total(queued') = stale + Total(queued) - 1
        /\ spent' + Total(parked') = spent + Total(parked) + 1
    <3>1. CASE queued' = [queued EXCEPT ![u] = @ - 1]
               /\ queued[u] > 0 /\ parked' = [parked EXCEPT ![u] = @ + 1] /\ UNCHANGED <<stale, spent>>
      <4>1. Total(queued') = Total(queued) - 1
        BY <1>a, <3>1, OneJobLess
      <4>2. Total(parked') = Total(parked) + 1
        BY <1>a, <3>1, OneJobMore
      <4>3. QED
        BY <1>a, <3>1, <4>1, <4>2
    <3>2. CASE stale' = stale - 1 /\ spent' = spent + 1 /\ UNCHANGED <<queued, parked>>
      BY <1>a, <3>2
    <3>3. QED
      BY <1>7, <3>1, <3>2 DEF LosePop
  <2>4. ParkedInv'
    BY <1>a, <1>b, <1>c, <2>2, <2>3 DEF ParkedInv
  <2>5. QED
    BY <1>a, <1>b, <1>d, <2>1, <2>2, <2>3, <2>4
<1>8. ASSUME NEW u \in Users, Finish(u) \/ Lose(u)
      PROVE  RoomInv'
  <2>1. MayPush' \in SUBSET MayPush
    BY <1>8 DEF Finish, Lose, request, MayPush
  <2>2. UNCHANGED <<queued, stale, stopping, worker>> /\ cuts' = cuts
    BY <1>8 DEF Finish, Lose, Unlisted, AsMeant, Stray, ghosts
  <2>3. Total(running') = Total(running) - 1
    BY <1>a, <1>8, OneJobLess DEF Finish, Lose
  <2>4. PICK d \in {0, 1} : /\ strays' = strays + d
                            /\ spent' + Total(parked') = spent + Total(parked) + d
    <3>1. CASE Finish(u)
      BY <1>a, <3>1 DEF Finish, Unlisted, AsMeant, Stray, ghosts
    <3>2. CASE Lose(u) /\ parked' = parked /\ UNCHANGED ghosts
      BY <1>a, <3>2 DEF Lose, ghosts
    <3>3. CASE Lose(u) /\ parked' = [parked EXCEPT ![u] = @ + 1] /\ Stray
      <4>1. Total(parked') = Total(parked) + 1
        BY <1>a, <3>3, OneJobMore
      <4>2. QED
        BY <1>a, <3>3, <4>1 DEF Lose, Stray
    <3>4. QED
      BY <1>8, <3>1, <3>2, <3>3 DEF Lose
  <2>5. ParkedInv'
    BY <1>a, <1>b, <1>c, <2>2, <2>3, <2>4 DEF ParkedInv
  <2>6. QED
    BY <1>a, <1>b, <1>d, <2>1, <2>2, <2>3, <2>4, <2>5
<1>9. ASSUME TakeStale
      PROVE  RoomInv'
  <2>1. MayPush' \in SUBSET MayPush
    BY <1>9 DEF TakeStale, request, MayPush
  <2>2. /\ strays' = strays + 0 /\ cuts' = cuts
        /\ UNCHANGED <<queued, running, parked, spent, worker>>
        /\ stale' = stale - 1 /\ stopping' = stopping + 1
        /\ worker = "runs" /\ Inflight < JobConcurrency
    BY <1>a, <1>9 DEF TakeStale, Pops, AsMeant, ghosts
  <2>3. ParkedInv'
    BY <1>a, <1>b, <1>c, <2>2 DEF ParkedInv
  <2>4. QED
    BY <1>a, <1>d, <2>1, <2>2, <2>3
<1>10. ASSUME FinishStale
       PROVE  RoomInv'
  <2>1. MayPush' \in SUBSET MayPush
    BY <1>10 DEF FinishStale, request, MayPush
  <2>2. /\ UNCHANGED <<queued, running, parked, stale, worker>> /\ cuts' = cuts
        /\ stopping' = stopping - 1
    BY <1>10 DEF FinishStale, Unlisted, AsMeant, Stray, ghosts
  <2>3. PICK d \in {0, 1} : strays' = strays + d /\ spent' = spent + d
    BY <1>a, <1>10 DEF FinishStale, Unlisted, AsMeant, Stray, ghosts
  <2>4. ParkedInv'
    BY <1>a, <1>b, <1>c, <2>2, <2>3 DEF ParkedInv
  <2>5. QED
    BY <1>a, <1>d, <2>1, <2>2, <2>3, <2>4
<1>11. ASSUME Recover
       PROVE  RoomInv'
  <2>1. MayPush' \in SUBSET MayPush
    BY <1>11 DEF Recover, request, MayPush
  <2>2. /\ UNCHANGED <<running, stopping>> /\ cuts' = cuts
        /\ worker = "starts" /\ worker' = "runs" /\ spent' = 0
    BY <1>11 DEF Recover, AsMeant, Stray, ghosts
  <2>3. PICK d \in {0, 1} : strays' = strays + d /\ stale' = stale + spent + d
    BY <1>a, <1>11 DEF Recover, AsMeant, Stray, ghosts
  <2>4. Total(queued') <= Total(queued) + Total(parked) /\ Total(parked') = 0
    BY <1>a, <1>11, TwoKinds, NoJobs DEF Recover
  <2>5. ParkedInv'
    BY <1>a, <1>b, <1>c, <2>2, <2>4 DEF ParkedInv
  <2>6. QED
    BY <1>a, <1>b, <1>d, <2>1, <2>2, <2>3, <2>4, <2>5
<1>12. ASSUME RecoveryFails
       PROVE  RoomInv'
  <2>1. MayPush' = MayPush
    BY <1>12 DEF RecoveryFails, request, MayPush
  <2>2. /\ UNCHANGED <<queued, running, parked, stopping, spent, strays>>
        /\ worker = "starts" /\ worker' = "dead" /\ CutShort
    BY <1>12 DEF RecoveryFails, CutShort
  <2>3. ParkedInv'
    BY <1>a, <1>b, <1>c, <2>2 DEF ParkedInv
  <2>4. /\ Depth' = Depth + (stale' - stale)
        /\ Inflight' + Parked' <= Inflight + Parked
    BY <1>a, <1>b, <2>2
  <2>5. QED
    BY <1>c, <2>1, <2>2, <2>3, <2>4, ListedAgain
<1>13. ASSUME Crash
       PROVE  RoomInv'
  <2>1. MayPush' \in SUBSET MayPush
    BY <1>13 DEF Crash, MayPush, InLoop
  <2>2. /\ queued' = queued /\ strays' = strays /\ spent' = spent + stopping /\ stopping' = 0
        /\ worker' = "starts"
    BY <1>13 DEF Crash
  <2>3. Total(parked') <= Total(parked) + Total(running) /\ Total(running') = 0
    BY <1>a, <1>13, TwoKinds, NoJobs DEF Crash
  <2>4. ParkedInv'
    BY <1>a, <1>b, <1>c, <2>2, <2>3 DEF ParkedInv, TypeOK
  <2>5. CASE CutShort
    <3>1. /\ Depth' = Depth + (stale' - stale)
          /\ Inflight' + Parked' <= Inflight + Parked
      BY <1>a, <1>b, <2>2, <2>3
    <3>2. QED
      BY <1>c, <2>1, <2>2, <2>4, <2>5, <3>1, ListedAgain
  <2>6. CASE UNCHANGED <<stale, cuts>>
    BY <1>a, <1>b, <1>d, <2>1, <2>2, <2>3, <2>4, <2>6
  <2>7. QED
    BY <1>13, <2>5, <2>6 DEF Crash
<1>14. CASE UNCHANGED vars
  BY <1>14, <1>same DEF vars, jobs, request, MayPush
<1>15. QED
  BY <1>1, <1>2, <1>3, <1>4, <1>5, <1>6, <1>7, <1>8, <1>9, <1>10, <1>11, <1>12, <1>13, <1>14
  DEF Next, Step

\* Whatever is deleted, put back, listed twice or sent at once, the queue outgrows
\* its cap by at most a batch for each request beyond one and what may be put back.
THEOREM QueueOutgrowsByLittle ==
  ASSUME Clients # {}
  PROVE  Spec => []DepthBound
<1>1. Init => TypeOK /\ RowInv /\ RoomInv
  <2> SUFFICES ASSUME Init PROVE RoomInv
    BY InitTypes
  <2>1. /\ Total(queued) = 0 /\ Total(running) = 0 /\ Total(parked) = 0
        /\ stale = 0 /\ stopping = 0 /\ spent = 0
    BY NoJobs DEF Init
  <2>2. Cardinality(MayPush) = 0
    <3>1. MayPush = {}
      BY DEF Init, MayPush, InLoop
    <3>2. QED
      BY <3>1, FS_EmptySet
  <2>3. Depth = 0 /\ Inflight = 0 /\ Parked = 0
    BY <2>1 DEF Depth, Inflight, Parked
  <2>4. ParkedInv
    BY <2>3, AdmissionAssumption DEF ParkedInv, Init
  <2>5. Cap \in Nat /\ PutBack \in Nat
    BY CapType, InitTypes, DepthTypes
  <2>6. QED
    BY <2>2, <2>3, <2>4, <2>5 DEF RoomInv
<1>2. TypeOK /\ RowInv /\ RoomInv /\ [Next]_vars => (TypeOK /\ RowInv /\ RoomInv)'
  BY TypeStep, RoomStep
<1>3. TypeOK /\ RoomInv => DepthBound
  BY DepthTypes, MayPushFinite, CapType DEF RoomInv, DepthBound, Cap, PutBack
<1>4. QED
  BY <1>1, <1>2, <1>3, PTL DEF Spec
=============================================================================
