---------------------------- MODULE EngineProofs ----------------------------
(***************************************************************************)
(* Proofs about the use of the engine: how many jobs run it at a time, and *)
(* which of its texts they return.                                         *)
(*                                                                         *)
(* Slots, for every number of tasks, limit, TTL and waiting time: types,   *)
(* the concurrency limit and the implementation of the counting semaphore, *)
(* provided no job keeps its slot for the whole TTL; and, without that     *)
(* condition, that entries have owners.                                    *)
(*                                                                         *)
(* Selection, for all texts and rewritings, word lists and measures: what  *)
(* is returned has kept the meaning as far as semantic_check can tell,     *)
(* also if it was rewritten twice, and is the best that parses.            *)
(***************************************************************************)
EXTENDS Slots, Selection, SequenceTheorems, FiniteSetTheorems, WellFoundedInduction, TLAPS

\* A step of acquire keeps the types: what is removed from the sets of entries is
\* a part of them, and what is set anew of ages and waits starts within its bound.
LEMMA AcquiringTyped ==
  ASSUME TypeOK, NEW t \in Tasks, Acquiring(t)
  PROVE  TypeOK'
<1> USE SlotsAssumption DEF TypeOK, PCs, Goto
<1>1. CASE ReapAndCount(t) \/ Withdraw(t)
  BY <1>1 DEF ReapAndCount, RemoveAndCount, Withdraw, RemoveEntries, Stale
<1>2. CASE GiveUp(t) \/ Register(t) \/ Recheck(t)
  BY <1>2 DEF GiveUp, Register, Recheck, Acquired
<1>3. QED
  BY <1>1, <1>2 DEF Acquiring

\* So does every other step of a task, and time.
LEMMA StepTyped == TypeOK /\ [Next]_vars => TypeOK'
<1> SUFFICES ASSUME TypeOK, [Next]_vars,
                    ~ \E t \in Tasks : Acquiring(t)
             PROVE  TypeOK'
  BY AcquiringTyped
<1> USE SlotsAssumption DEF TypeOK, PCs
<1>1. CASE Tick \/ UNCHANGED vars
  BY <1>1 DEF Tick, vars
<1>2. CASE \E t \in Tasks : Begin(t) \/ Release(t) \/ Die(t)
  BY <1>2 DEF Begin, Release, Die, RemoveEntries, Goto
<1>3. QED
  BY <1>1, <1>2 DEF Next

\* Every variable keeps its type.
THEOREM TypeCorrect == Spec => []TypeOK
<1>1. Init => TypeOK
  BY SlotsAssumption DEF Init, TypeOK, PCs
<1>2. QED
  BY <1>1, StepTyped, PTL DEF Spec

\* An entry in the set is that of a task between its ZADD and its ZREM, or of one
\* that died there: whichever way acquire ends, it leaves nothing behind.
THEOREM EntriesHaveOwners == Spec => []SlotsAccountedFor
<1>1. Init => SlotsAccountedFor
  BY DEF Init, SlotsAccountedFor
<1>2. TypeOK /\ SlotsAccountedFor /\ [Next]_vars => SlotsAccountedFor'
  <2> SUFFICES ASSUME TypeOK, SlotsAccountedFor, [Next]_vars
               PROVE  SlotsAccountedFor'
    OBVIOUS
  <2> USE DEF TypeOK, PCs, SlotsAccountedFor, Goto
  <2>1. ASSUME NEW t \in Tasks, Begin(t) \/ GiveUp(t) \/ Register(t) \/ Recheck(t) \/ Die(t)
        PROVE  SlotsAccountedFor'
    BY <2>1 DEF Begin, GiveUp, Register, Recheck, Acquired, Die
  <2>2. ASSUME NEW t \in Tasks, ReapAndCount(t) \/ Withdraw(t) \/ Release(t)
        PROVE  SlotsAccountedFor'
    BY <2>2 DEF ReapAndCount, RemoveAndCount, Withdraw, Release, RemoveEntries
  <2>3. CASE Tick \/ UNCHANGED vars
    BY <2>3 DEF Tick, vars
  <2>4. QED
    BY <2>1, <2>2, <2>3 DEF Next, Acquiring
<1>3. QED
  BY <1>1, <1>2, TypeCorrect, PTL DEF Spec
-----------------------------------------------------------------------------
\* Only the owner of an entry, or a task that finds it stale, removes it, and
\* a registered task's entry never gets stale.
LEMMA RegisteredStep ==
  ASSUME ~HoldersMayOverrun, TypeOK, HoldersRegistered, [Next]_vars
  PROVE  HoldersRegistered'
<1> USE SlotsAssumption DEF TypeOK, HoldersRegistered, Registered
<1>1. ASSUME NEW t \in Tasks, Begin(t)
      PROVE  HoldersRegistered'
  BY <1>1 DEF Begin
<1>2. ASSUME NEW t \in Tasks, Acquiring(t)
      PROVE  HoldersRegistered'
  <2>1. CASE ReapAndCount(t)
    BY <2>1 DEF ReapAndCount, RemoveAndCount, RemoveEntries, Stale, Goto
  <2>2. CASE GiveUp(t) \/ Register(t)
    BY <2>2 DEF GiveUp, Register, Goto
  <2>3. CASE Recheck(t)
    BY <2>3 DEF Recheck, Acquired, Goto
  <2>4. CASE Withdraw(t)
    BY <2>4 DEF Withdraw, RemoveEntries, Goto
  <2>5. QED
    BY <1>2, <2>1, <2>2, <2>3, <2>4 DEF Acquiring
<1>3. ASSUME NEW t \in Tasks, Release(t) \/ Die(t)
      PROVE  HoldersRegistered'
  BY <1>3 DEF Release, Die, RemoveEntries, Goto
<1>4. CASE Tick
  BY <1>4 DEF Tick
<1>5. CASE UNCHANGED vars
  BY <1>5 DEF vars
<1>6. QED
  BY <1>1, <1>2, <1>3, <1>4, <1>5 DEF Next

\* The set of running jobs changes in three ways only: one task enters after
\* it counted at most JobConcurrency entries, one leaves, or nothing happens.
LEMMA HoldersStep ==
  ASSUME TypeOK, [Next]_vars
  PROVE  \/ \E t \in Tasks : /\ pc[t] = "recheck"
                             /\ Cardinality(slots) <= JobConcurrency
                             /\ Holders' = Holders \cup {t}
         \/ \E t \in Holders : Holders' = Holders \ {t}
         \/ Holders' = Holders
<1> USE DEF TypeOK, Holders
<1>1. ASSUME NEW t \in Tasks, Begin(t) \/ ReapAndCount(t) \/ GiveUp(t)
      PROVE  Holders' = Holders
  BY <1>1 DEF Begin, ReapAndCount, RemoveAndCount, GiveUp, Goto
<1>2. ASSUME NEW t \in Tasks, Register(t) \/ Withdraw(t)
      PROVE  Holders' = Holders
  BY <1>2 DEF Register, Withdraw, Goto
<1>3. ASSUME NEW t \in Tasks, Recheck(t)
      PROVE  \/ /\ pc[t] = "recheck"
                /\ Cardinality(slots) <= JobConcurrency
                /\ Holders' = Holders \cup {t}
             \/ Holders' = Holders
  BY <1>3 DEF Recheck, Acquired, Goto
<1>4. ASSUME NEW t \in Tasks, Release(t)
      PROVE  t \in Holders /\ Holders' = Holders \ {t}
  BY <1>4 DEF Release, Goto
<1>5. ASSUME NEW t \in Tasks, Die(t)
      PROVE  \/ t \in Holders /\ Holders' = Holders \ {t}
             \/ Holders' = Holders
  BY <1>5 DEF Die
<1>6. CASE Tick \/ UNCHANGED vars
  BY <1>6 DEF Tick, vars
<1>7. QED
  BY <1>1, <1>2, <1>3, <1>4, <1>5, <1>6 DEF Next, Acquiring
-----------------------------------------------------------------------------
\* When all running jobs are registered, one that enters after counting at
\* most JobConcurrency entries finds fewer than that many inside.
LEMMA RoomForOne ==
  ASSUME TypeOK, HoldersRegistered,
         NEW t \in Tasks, pc[t] = "recheck",
         Cardinality(slots) <= JobConcurrency
  PROVE  /\ t \notin Holders
         /\ Cardinality(Holders) < JobConcurrency
         /\ Cardinality(Holders \cup {t}) <= JobConcurrency
<1>1. Holders \cup {t} \in SUBSET slots
  BY DEF Holders, HoldersRegistered, Registered
<1>2. IsFiniteSet(slots)
  BY SlotsAssumption, FS_Subset DEF TypeOK
<1>3. /\ IsFiniteSet(Holders \cup {t})
      /\ Cardinality(Holders \cup {t}) <= Cardinality(slots)
  BY <1>1, <1>2, FS_Subset
<1>4. t \notin Holders
  BY DEF Holders
<1>5. IsFiniteSet(Holders)
  BY <1>1, <1>2, FS_Subset
<1>6. Cardinality(Holders \cup {t}) = Cardinality(Holders) + 1
  BY <1>4, <1>5, FS_AddElement
<1>7. /\ Cardinality(Holders) \in Nat
      /\ Cardinality(slots) \in Nat
  BY <1>2, <1>5, FS_CardinalityType
<1>8. QED
  BY <1>3, <1>4, <1>6, <1>7, SlotsAssumption

\* The strengthening of the concurrency limit that every step preserves.
IInv == HoldersRegistered /\ HoldersWithinLimit

LEMMA IInvInit == Init => IInv
<1> SUFFICES ASSUME Init
             PROVE  IInv
  OBVIOUS
<1>1. Holders = {} /\ Registered = {}
  BY DEF Init, Holders, Registered
<1>2. QED
  BY <1>1, FS_EmptySet, SlotsAssumption
  DEF IInv, HoldersRegistered, HoldersWithinLimit

LEMMA IInvStep ==
  ASSUME ~HoldersMayOverrun, TypeOK, IInv, [Next]_vars
  PROVE  IInv'
<1>1. HoldersRegistered'
  BY RegisteredStep DEF IInv
<1>2. HoldersWithinLimit'
  <2> USE DEF IInv, HoldersWithinLimit
  <2>1. ASSUME NEW t \in Tasks, pc[t] = "recheck",
               Cardinality(slots) <= JobConcurrency,
               Holders' = Holders \cup {t}
        PROVE  HoldersWithinLimit'
    BY <2>1, RoomForOne
  <2>2. ASSUME NEW t \in Holders, Holders' = Holders \ {t}
        PROVE  HoldersWithinLimit'
    <3>1. IsFiniteSet(Holders)
      BY SlotsAssumption, FS_Subset DEF Holders
    <3>2. Holders' \in SUBSET Holders
      BY <2>2
    <3>3. /\ Cardinality(Holders') <= Cardinality(Holders)
          /\ IsFiniteSet(Holders')
      BY <3>1, <3>2, FS_Subset
    <3>4. Cardinality(Holders') \in Nat /\ Cardinality(Holders) \in Nat
      BY <3>1, <3>3, FS_CardinalityType
    <3>5. QED
      BY <3>3, <3>4, SlotsAssumption
  <2>3. CASE Holders' = Holders
    BY <2>3
  <2>4. QED
    BY <2>1, <2>2, <2>3, HoldersStep
<1>3. QED
  BY <1>1, <1>2 DEF IInv

\* JOB_CONCURRENCY is a limit on the jobs that run at once, in every worker
\* together, while no job outlives its slot.
THEOREM LimitHolds ==
  ASSUME ~HoldersMayOverrun
  PROVE  Spec => []HoldersWithinLimit
<1>1. TypeOK /\ IInv /\ [Next]_vars => IInv'
  BY IInvStep
<1>2. IInv => HoldersWithinLimit
  BY DEF IInv
<1>3. QED
  BY <1>1, <1>2, IInvInit, TypeCorrect, PTL DEF Spec

\* The slot protocol implements the counting semaphore under the same proviso.
THEOREM SlotsImplementSemaphore ==
  ASSUME ~HoldersMayOverrun
  PROVE  Spec => ImplementsSemaphore
<1>1. Init => Sem!Init
  BY DEF Init, Sem!Init, Holders
<1>2. TypeOK /\ IInv /\ [Next]_vars => [Sem!Next]_Holders
  <2> SUFFICES ASSUME TypeOK, IInv, [Next]_vars
               PROVE  [Sem!Next]_Holders
    OBVIOUS
  <2>1. ASSUME NEW t \in Tasks, pc[t] = "recheck",
               Cardinality(slots) <= JobConcurrency,
               Holders' = Holders \cup {t}
        PROVE  Sem!Enter(t)
    <3>1. Sem!Cardinality(Holders) = Cardinality(Holders)
      BY DEF Sem!Cardinality, Cardinality
    <3>2. t \notin Holders /\ Cardinality(Holders) < JobConcurrency
      BY <2>1, RoomForOne DEF IInv
    <3>3. QED
      BY <2>1, <3>1, <3>2 DEF Sem!Enter
  <2>2. ASSUME NEW t \in Holders, Holders' = Holders \ {t}
        PROVE  t \in Tasks /\ Sem!Leave(t)
    BY <2>2 DEF Sem!Leave, Holders
  <2>3. QED
    BY <2>1, <2>2, HoldersStep DEF Sem!Next
<1>3. TypeOK /\ IInv /\ [Next]_vars => IInv'
  BY IInvStep
<1>4. QED
  BY <1>1, <1>2, <1>3, IInvInit, TypeCorrect, PTL
  DEF Spec, ImplementsSemaphore, Sem!Spec
-----------------------------------------------------------------------------
\* Numbers have a smallest one, as < is well-founded.
LEMMA Smallest ==
  ASSUME NEW S \in SUBSET Nat, S # {}
  PROVE  \E m \in S : \A k \in S : m <= k
<1>1. PICK m \in S : \A k \in S : ~ (<<k, m>> \in OpToRel(<, Nat))
  BY WFMin, NatLessThanWellFounded, Zenon
<1>2. \A k \in S : k < m => <<k, m>> \in OpToRel(<, Nat)
  BY DEF OpToRel
<1>3. \A k \in S : ~ (k < m)
  BY <1>1, <1>2, Zenon
<1>4. \A k \in S : k \in Nat /\ m \in Nat
  OBVIOUS
<1>5. QED
  BY <1>3, <1>4

\* Induction without an operator: a set that has 0 and with a number the next
\* one, up to n, has n.  Otherwise it would miss a smallest number.
LEMMA Reaches ==
  ASSUME NEW S, NEW n \in Nat, 0 \in S, \A k \in 0..(n - 1) : k \in S => k + 1 \in S
  PROVE  \A k \in 0..n : k \in S
<1> DEFINE T == (0..n) \ S
<1>1. SUFFICES ASSUME T # {}
               PROVE  FALSE
  OBVIOUS
<1>2. PICK m \in T : \A k \in T : m <= k
  <2>1. T \in SUBSET Nat /\ T # {}
    BY <1>1
  <2> HIDE DEF T
  <2>2. QED
    BY <2>1, Smallest
<1>3. m \in 1..n /\ m \notin S
  OBVIOUS
<1>4. m - 1 \in 0..(n - 1) /\ m - 1 \notin S
  <2>1. m - 1 \in 0..(n - 1) /\ (m - 1) + 1 = m
    BY <1>3
  <2>2. QED
    BY <1>3, <2>1
<1>5. m - 1 \in T
  BY <1>3, <1>4
<1> HIDE DEF T
<1>6. QED
  BY <1>2, <1>3, <1>5

\* FlattenSeq is what it looks like: it adds one sequence after the other.
LEMMA Flattening ==
  ASSUME NEW T, NEW ss \in Seq(Seq(T))
  PROVE  \E F \in [0..Len(ss) -> Seq(T)] :
           /\ F[0] = <<>>
           /\ \A i \in 1..Len(ss) : F[i] = F[i - 1] \o ss[i]
           /\ FlattenSeq(ss) = F[Len(ss)]
<1> DEFINE n == Len(ss)
           IsFlat(f, k) == f = [i \in 1..k |-> IF i = 1 THEN ss[i] ELSE f[i - 1] \o ss[i]]
           flat == CHOOSE f : IsFlat(f, n)
<1>1. n \in Nat /\ \A i \in 1..n : ss[i] \in Seq(T)
  BY LenProperties, ElementOfSeq
<1>2. CASE n = 0
  <2>1. FlattenSeq(ss) = <<>>
    BY <1>2, EmptySeq DEF FlattenSeq
  <2> DEFINE F == [i \in 0..n |-> <<>>]
  <2>2. F \in [0..n -> Seq(T)] /\ F[0] = <<>> /\ F[n] = <<>>
    BY <1>2, EmptySeq
  <2> HIDE DEF F
  <2>3. QED
    BY <1>2, <2>1, <2>2
<1>3. CASE n > 0
  <2> DEFINE Has == {k \in Nat : \E f : IsFlat(f, k)}
  <2>1. 0 \in Has
    <3>1. IsFlat(<<>>, 0)
      OBVIOUS
    <3>2. QED
      BY <3>1
  <2>2. \A k \in 0..(n - 1) : k \in Has => k + 1 \in Has
    <3> SUFFICES ASSUME NEW k \in 0..(n - 1), k \in Has
                 PROVE  k + 1 \in Has
      OBVIOUS
    <3>1. PICK f : IsFlat(f, k)
      OBVIOUS
    <3> DEFINE g == [i \in 1..(k + 1) |-> IF i <= k THEN f[i]
                                          ELSE IF i = 1 THEN ss[i] ELSE f[i - 1] \o ss[i]]
    <3>2. \A i \in 1..(k + 1) : g[i] = IF i = 1 THEN ss[i] ELSE g[i - 1] \o ss[i]
      <4> SUFFICES ASSUME NEW i \in 1..(k + 1)
                   PROVE  g[i] = IF i = 1 THEN ss[i] ELSE g[i - 1] \o ss[i]
        OBVIOUS
      <4>1. i # 1 => i - 1 \in 1..k /\ g[i - 1] = f[i - 1]
        OBVIOUS
      <4>2. i <= k => g[i] = f[i] /\ f[i] = IF i = 1 THEN ss[i] ELSE f[i - 1] \o ss[i]
        <5>1. SUFFICES ASSUME i <= k
                       PROVE  f[i] = IF i = 1 THEN ss[i] ELSE f[i - 1] \o ss[i]
          OBVIOUS
        <5>2. i \in 1..k
          BY <5>1
        <5>3. QED
          BY <3>1, <5>2, Zenon
      <4>3. ~ (i <= k) => g[i] = IF i = 1 THEN ss[i] ELSE f[i - 1] \o ss[i]
        OBVIOUS
      <4> HIDE DEF g, IsFlat
      <4>4. QED
        BY <4>1, <4>2, <4>3
    <3>3. IsFlat(g, k + 1)
      BY <3>2
    <3> HIDE DEF g, IsFlat
    <3>4. QED
      BY <3>3
  <2>3. IsFlat(flat, n)
    <3>1. n \in Has
      <4> HIDE DEF Has, n
      <4>1. n \in Nat /\ n \in 0..n
        BY <1>1
      <4>2. \A k \in 0..n : k \in Has
        BY <2>1, <2>2, <4>1, Reaches, Zenon
      <4>3. QED
        BY <4>1, <4>2
    <3> HIDE DEF IsFlat
    <3>2. QED
      BY <3>1
  <2>4. FlattenSeq(ss) = flat[n]
    BY <1>3 DEF FlattenSeq
  <2> DEFINE F == [i \in 0..n |-> IF i = 0 THEN <<>> ELSE flat[i]]
  <2> HIDE DEF flat
  <2>5. \A i \in 1..n : flat[i] = IF i = 1 THEN ss[i] ELSE flat[i - 1] \o ss[i]
    BY <2>3
  <2>6. ASSUME NEW i \in 1..n
        PROVE  F[i] = F[i - 1] \o ss[i]
    <3>1. <<>> \o ss[i] = ss[i]
      BY <1>1, ConcatEmptySeq
    <3>2. i # 1 => F[i - 1] = flat[i - 1]
      BY <1>1
    <3>3. i = 1 => F[i - 1] = <<>>
      BY <1>1
    <3>4. F[i] = flat[i]
      BY <1>1
    <3> HIDE DEF F
    <3>5. QED
      BY <2>5, <3>1, <3>2, <3>3, <3>4
  <2>7. \A k \in 0..n : F[k] \in Seq(T)
    <3> DEFINE Typed == {k \in 0..n : F[k] \in Seq(T)}
    <3>1. 0 \in Typed
      BY <1>1, EmptySeq
    <3>2. \A k \in 0..(n - 1) : k \in Typed => k + 1 \in Typed
      <4> SUFFICES ASSUME NEW k \in 0..(n - 1), F[k] \in Seq(T)
                   PROVE  F[k + 1] \in Seq(T) /\ k + 1 \in 0..n
        OBVIOUS
      <4> HIDE DEF F
      <4>1. k + 1 \in 1..n /\ (k + 1) - 1 = k
        BY <1>1
      <4>2. F[k + 1] = F[(k + 1) - 1] \o ss[k + 1] /\ ss[k + 1] \in Seq(T)
        BY <1>1, <2>6, <4>1
      <4>3. F[k + 1] = F[k] \o ss[k + 1]
        BY <4>1, <4>2, Zenon
      <4>4. F[k] \o ss[k + 1] \in Seq(T)
        BY <4>2, ConcatProperties
      <4>5. QED
        BY <1>1, <4>1, <4>3, <4>4
    <3> HIDE DEF Typed
    <3>3. \A k \in 0..n : k \in Typed
      BY <1>1, <3>1, <3>2, Reaches
    <3>4. QED
      BY <3>3 DEF Typed
  <2>8. F \in [0..n -> Seq(T)] /\ F[0] = <<>> /\ FlattenSeq(ss) = F[n]
    BY <1>1, <1>3, <2>4, <2>7
  <2> HIDE DEF F
  <2>9. QED
    BY <2>6, <2>8
<1>4. QED
  <2>1. n = 0 \/ n > 0
    BY <1>1
  <2>2. QED
    BY <2>1, <1>2, <1>3, Zenon

\* The places of a word in a sequence of tokens, and their number.
Places(s, w) == {i \in DOMAIN s : s[i].word = w}
Often(s, w)  == Cardinality(Places(s, w))

\* Finitely many: these can be counted.
LEMMA PlacesFinite ==
  ASSUME NEW s \in Seq(Tokens)
  PROVE  /\ IsFiniteSet(DOMAIN s)
         /\ \A P \in SUBSET DOMAIN s : IsFiniteSet(P) /\ Cardinality(P) \in Nat
         /\ \A w : Often(s, w) \in Nat
<1>1. Len(s) \in Nat /\ DOMAIN s = 1..Len(s)
  BY LenProperties
<1>2. IsFiniteSet(DOMAIN s)
  BY <1>1, FS_Interval
<1>3. \A P \in SUBSET DOMAIN s : IsFiniteSet(P) /\ Cardinality(P) \in Nat
  BY <1>2, FS_Subset, FS_CardinalityType
<1>4. QED
  BY <1>2, <1>3 DEF Often, Places

\* Joined sequences have a word as often as both together.
LEMMA OftenJoined ==
  ASSUME NEW s \in Seq(Tokens), NEW t \in Seq(Tokens), NEW w
  PROVE  Often(s \o t, w) = Often(s, w) + Often(t, w)
<1> DEFINE P == Places(s, w)
           Q == Places(t, w)
           Shifted == {i + Len(s) : i \in Q}
<1>1. /\ Len(s) \in Nat /\ DOMAIN s = 1..Len(s)
      /\ Len(t) \in Nat /\ DOMAIN t = 1..Len(t)
  BY LenProperties
<1>2. /\ DOMAIN (s \o t) = 1..(Len(s) + Len(t))
      /\ \A i \in 1..(Len(s) + Len(t)) :
           (s \o t)[i] = IF i <= Len(s) THEN s[i] ELSE t[i - Len(s)]
  <2>1. s \o t \in Seq(Tokens) /\ Len(s \o t) = Len(s) + Len(t)
    BY ConcatProperties
  <2>2. DOMAIN (s \o t) = 1..Len(s \o t)
    BY <2>1, LenProperties
  <2>3. QED
    BY <2>1, <2>2, ConcatProperties
<1>3. Places(s \o t, w) = P \cup Shifted
  <2>1. ASSUME NEW i \in Places(s \o t, w)
        PROVE  i \in P \cup Shifted
    <3>1. i \in 1..(Len(s) + Len(t)) /\ (s \o t)[i].word = w
      BY <1>2, <2>1 DEF Places
    <3>2. CASE i <= Len(s)
      BY <1>1, <1>2, <3>1, <3>2 DEF Places
    <3>3. CASE ~ (i <= Len(s))
      <4>1. i - Len(s) \in 1..Len(t) /\ t[i - Len(s)].word = w /\ i = (i - Len(s)) + Len(s)
        BY <1>1, <1>2, <3>1, <3>3
      <4>2. i - Len(s) \in Q
        BY <1>1, <4>1 DEF Places
      <4> HIDE DEF Q
      <4>3. QED
        BY <4>1, <4>2
    <3>4. QED
      BY <3>2, <3>3
  <2>2. P \subseteq Places(s \o t, w)
    BY <1>1, <1>2 DEF Places
  <2>3. ASSUME NEW j \in Q
        PROVE  j + Len(s) \in Places(s \o t, w)
    <3>1. j \in 1..Len(t) /\ t[j].word = w
      BY <1>1, <2>3 DEF Places
    <3>2. /\ j + Len(s) \in 1..(Len(s) + Len(t)) /\ ~ (j + Len(s) <= Len(s))
          /\ (j + Len(s)) - Len(s) = j
      BY <1>1, <3>1
    <3>3. (s \o t)[j + Len(s)] = t[j]
      BY <1>2, <3>2
    <3>4. QED
      BY <1>2, <3>1, <3>2, <3>3 DEF Places
  <2>4. QED
    BY <2>1, <2>2, <2>3
<1>4. IsFiniteSet(P) /\ IsFiniteSet(Q) /\ Cardinality(P) \in Nat /\ Cardinality(Q) \in Nat
  <2>1. P \in SUBSET DOMAIN s /\ Q \in SUBSET DOMAIN t
    BY DEF Places
  <2>2. QED
    BY <2>1, PlacesFinite
<1>5. IsFiniteSet(Shifted) /\ Cardinality(Shifted) = Cardinality(Q)
  <2> DEFINE f == [i \in Q |-> i + Len(s)]
  <2>1. Q \subseteq Nat
    BY <1>1 DEF Places
  <2>2. f \in Bijection(Q, Shifted)
    <3> HIDE DEF Q
    <3>1. f \in [Q -> Shifted] /\ \A j \in Shifted : \E i \in Q : f[i] = j
      OBVIOUS
    <3>2. \A i, j \in Q : f[i] = f[j] => i = j
      BY <1>1, <2>1
    <3> HIDE DEF f, Shifted
    <3>3. QED
      BY <3>1, <3>2 DEF Bijection, Injection, Surjection, IsInjective
  <2> HIDE DEF f, Q, Shifted
  <2>3. QED
    BY <1>4, <2>2, FS_Bijection DEF ExistsBijection
<1>6. P \cap Shifted = {}
  BY <1>1 DEF Places
<1>7. Cardinality(P \cup Shifted) = Cardinality(P) + Cardinality(Q)
  <2> HIDE DEF P, Q, Shifted
  <2>1. Cardinality(P \cup Shifted) = Cardinality(P) + Cardinality(Shifted) - Cardinality(P \cap Shifted)
    BY <1>4, <1>5, FS_Union
  <2>2. Cardinality(P \cap Shifted) = 0
    BY <1>6, FS_EmptySet
  <2>3. QED
    BY <1>4, <1>5, <2>1, <2>2
<1>8. QED
  BY <1>3, <1>7 DEF Often

\* Sequences that are flattened from pieces which have a word equally often have
\* it equally often.
LEMMA OftenFlattened ==
  ASSUME NEW ss \in Seq(Seq(Tokens)), NEW tt \in Seq(Seq(Tokens)), NEW w,
         Len(ss) = Len(tt),
         \A i \in 1..Len(ss) : Often(ss[i], w) = Often(tt[i], w)
  PROVE  Often(FlattenSeq(ss), w) = Often(FlattenSeq(tt), w)
<1> DEFINE n == Len(ss)
<1>1. PICK F \in [0..n -> Seq(Tokens)] :
        /\ F[0] = <<>>
        /\ \A i \in 1..n : F[i] = F[i - 1] \o ss[i]
        /\ FlattenSeq(ss) = F[n]
  BY Flattening
<1>2. PICK G \in [0..n -> Seq(Tokens)] :
        /\ G[0] = <<>>
        /\ \A i \in 1..n : G[i] = G[i - 1] \o tt[i]
        /\ FlattenSeq(tt) = G[n]
  BY Flattening
<1>3. n \in Nat /\ \A i \in 1..n : ss[i] \in Seq(Tokens) /\ tt[i] \in Seq(Tokens)
  BY LenProperties, ElementOfSeq
<1> DEFINE Same == {k \in 0..n : Often(F[k], w) = Often(G[k], w)}
<1>4. 0 \in Same
  BY <1>1, <1>2, <1>3
<1>5. \A k \in 0..(n - 1) : k \in Same => k + 1 \in Same
  <2> SUFFICES ASSUME NEW k \in 0..(n - 1), Often(F[k], w) = Often(G[k], w)
               PROVE  k + 1 \in 0..n /\ Often(F[k + 1], w) = Often(G[k + 1], w)
    OBVIOUS
  <2> DEFINE i == k + 1
  <2>1. i \in 1..n /\ i - 1 = k /\ k \in 0..n
    BY <1>3
  <2> HIDE DEF i
  <2>2. F[i] = F[k] \o ss[i] /\ G[i] = G[k] \o tt[i]
    BY <1>1, <1>2, <2>1
  <2> HIDE DEF n
  <2>3. F[k] \in Seq(Tokens) /\ G[k] \in Seq(Tokens) /\ ss[i] \in Seq(Tokens) /\ tt[i] \in Seq(Tokens)
    BY <1>3, <2>1
  <2>4. Often(F[k] \o ss[i], w) = Often(F[k], w) + Often(ss[i], w)
    BY <2>3, OftenJoined
  <2>5. Often(G[k] \o tt[i], w) = Often(G[k], w) + Often(tt[i], w)
    BY <2>3, OftenJoined
  <2>6. Often(ss[i], w) = Often(tt[i], w) /\ i \in 0..n
    BY <1>3, <2>1 DEF n
  <2>7. Often(F[i], w) = Often(G[i], w)
    BY <2>2, <2>4, <2>5, <2>6, Zenon
  <2>8. QED
    BY <2>6, <2>7 DEF i
<1> HIDE DEF Same, n
<1>6. n \in Nat /\ n \in 0..n
  BY <1>3
<1>7. \A k \in 0..n : k \in Same
  BY <1>4, <1>5, <1>6, Reaches, Zenon
<1>8. QED
  BY <1>1, <1>2, <1>6, <1>7 DEF Same

\* What is flattened is a sequence again, and each element as it was.
LEMMA FlattenedSeq ==
  ASSUME NEW T, NEW ss \in Seq(Seq(T))
  PROVE  FlattenSeq(ss) \in Seq(T)
<1>1. PICK F \in [0..Len(ss) -> Seq(T)] : FlattenSeq(ss) = F[Len(ss)]
  BY Flattening
<1>2. Len(ss) \in 0..Len(ss)
  BY LenProperties
<1>3. QED
  BY <1>1, <1>2

\* A sequence, taken apart and flattened again.
LEMMA FlattenedSingles ==
  ASSUME NEW T, NEW s \in Seq(T)
  PROVE  /\ [i \in DOMAIN s |-> <<s[i]>>] \in Seq(Seq(T))
         /\ Len([i \in DOMAIN s |-> <<s[i]>>]) = Len(s)
         /\ FlattenSeq([i \in DOMAIN s |-> <<s[i]>>]) = s
<1> DEFINE n == Len(s)
           ss == [i \in DOMAIN s |-> <<s[i]>>]
<1>1. n \in Nat /\ DOMAIN s = 1..n /\ \A i \in 1..n : s[i] \in T
  BY LenProperties, ElementOfSeq
<1>2. ss \in Seq(Seq(T)) /\ Len(ss) = n
  BY <1>1
<1>3. PICK F \in [0..n -> Seq(T)] :
        /\ F[0] = <<>>
        /\ \A i \in 1..n : F[i] = F[i - 1] \o ss[i]
        /\ FlattenSeq(ss) = F[n]
  <2> HIDE DEF ss, n
  <2>1. QED
    BY <1>2, Flattening
<1> DEFINE Taken == {k \in 0..n : F[k] = SubSeq(s, 1, k)}
<1>4. 0 \in Taken
  <2>1. SubSeq(s, 1, 0) = <<>>
    BY SubSeqEmpty
  <2> HIDE DEF ss, n
  <2>2. QED
    BY <1>1, <1>3, <2>1
<1>5. \A k \in 0..(n - 1) : k \in Taken => k + 1 \in Taken
  <2> SUFFICES ASSUME NEW k \in 0..(n - 1), F[k] = SubSeq(s, 1, k)
               PROVE  k + 1 \in 0..n /\ F[k + 1] = SubSeq(s, 1, k + 1)
    OBVIOUS
  <2> DEFINE i == k + 1
  <2>1. i \in 1..n /\ i - 1 = k /\ 1 \in 1..n
    BY <1>1
  <2> HIDE DEF i
  <2>2. F[i] = F[k] \o ss[i]
    BY <1>3, <2>1
  <2>3. ss[i] = <<s[i]>>
    BY <1>1, <2>1
  <2>4. SubSeq(s, 1, i) = SubSeq(s, 1, k) \o <<s[i]>>
    BY <1>1, <2>1, SubSeqRecursiveSecond
  <2> HIDE DEF ss, n
  <2>5. F[i] = SubSeq(s, 1, i)
    BY <2>2, <2>3, <2>4, Zenon
  <2>6. i \in 0..n
    BY <1>1, <2>1
  <2>7. QED
    BY <2>5, <2>6 DEF i
<1>6. SubSeq(s, 1, n) = s
  BY SubSeqFull
<1> HIDE DEF Taken, n, ss
<1>7. n \in Nat /\ n \in 0..n
  BY <1>1
<1>8. \A k \in 0..n : k \in Taken
  BY <1>4, <1>5, <1>7, Reaches, Zenon
<1>9. FlattenSeq(ss) = s
  BY <1>3, <1>6, <1>7, <1>8 DEF Taken
<1>10. QED
  BY <1>2, <1>9 DEF n, ss

\* Contractions are expanded to words, never to numbers: what is expanded has
\* every number as often as before.
LEMMA ExpandedTokens ==
  ASSUME NEW s \in Seq(Tokens)
  PROVE  /\ Expanded(s) \in Seq(Tokens)
         /\ \A w \in Numerals : Often(Expanded(s), w) = Often(s, w)
<1> DEFINE n == Len(s)
           Piece(i) == IF s[i].word \in DOMAIN Contractions
                       THEN [k \in DOMAIN Contractions[s[i].word] |-> Lower(Contractions[s[i].word][k])]
                       ELSE <<s[i]>>
           pieces  == [i \in DOMAIN s |-> Piece(i)]
           singles == [i \in DOMAIN s |-> <<s[i]>>]
<1>1. n \in Nat /\ DOMAIN s = 1..n /\ \A i \in 1..n : s[i] \in Tokens
  BY LenProperties, ElementOfSeq
<1>2. ASSUME NEW i \in 1..n
      PROVE  /\ Piece(i) \in Seq(Tokens)
             /\ \A w \in Numerals : Often(Piece(i), w) = Often(<<s[i]>>, w)
  <2>1. CASE s[i].word \in DOMAIN Contractions
    <3> DEFINE c == Contractions[s[i].word]
    <3>1. s[i].word \notin Numerals /\ c \in Seq(STRING \ Numerals)
      BY <2>1, SemanticsAssumption
    <3>2. Len(c) \in Nat /\ DOMAIN c = 1..Len(c) /\ \A k \in 1..Len(c) : c[k] \in STRING \ Numerals
      <4> HIDE DEF c
      <4>1. QED
        BY <3>1, LenProperties, ElementOfSeq
    <3>3. \A k \in 1..Len(c) : Lower(c[k]) \in Tokens
      <4> HIDE DEF c
      <4>1. QED
        BY <3>2 DEF Lower, Tokens, Forms
    <3>4. Piece(i) = [k \in 1..Len(c) |-> Lower(c[k])]
      BY <2>1, <3>2
    <3> HIDE DEF c, Piece
    <3>5. Piece(i) \in Seq(Tokens)
      BY <3>2, <3>3, <3>4
    <3>6. ASSUME NEW w \in Numerals
          PROVE  Often(Piece(i), w) = Often(<<s[i]>>, w)
      <4>1. DOMAIN Piece(i) = 1..Len(c) /\ \A k \in 1..Len(c) : Piece(i)[k].word # w
        BY <3>2, <3>4 DEF Lower
      <4>2. Places(Piece(i), w) = {} /\ Places(<<s[i]>>, w) = {}
        BY <3>1, <4>1 DEF Places
      <4>3. QED
        BY <4>2 DEF Often
    <3>7. QED
      BY <3>5, <3>6
  <2>2. CASE s[i].word \notin DOMAIN Contractions
    BY <1>1, <2>2
  <2>3. QED
    BY <2>1, <2>2
<1>3. pieces \in Seq(Seq(Tokens)) /\ Len(pieces) = n /\ \A i \in 1..n : pieces[i] = Piece(i)
  <2>1. \A i \in 1..n : Piece(i) \in Seq(Tokens)
    BY <1>2
  <2>2. pieces = [i \in 1..n |-> Piece(i)]
    BY <1>1
  <2> HIDE DEF Piece, pieces, n
  <2>3. pieces \in [1..n -> Seq(Tokens)]
    BY <2>1, <2>2
  <2>4. QED
    BY <1>1, <2>2, <2>3
<1>4. singles \in Seq(Seq(Tokens)) /\ Len(singles) = n /\ FlattenSeq(singles) = s
  BY FlattenedSingles
<1>5. \A i \in 1..n : singles[i] = <<s[i]>>
  BY <1>1
<1>6. Expanded(s) = FlattenSeq(pieces)
  BY DEF Expanded
<1> HIDE DEF pieces, singles, Piece, n
<1>7. Expanded(s) \in Seq(Tokens)
  BY <1>3, <1>6, FlattenedSeq
<1>8. ASSUME NEW w \in Numerals
      PROVE  Often(Expanded(s), w) = Often(s, w)
  <2>1. \A i \in 1..Len(pieces) : Often(pieces[i], w) = Often(singles[i], w)
    BY <1>2, <1>3, <1>5
  <2>2. Often(FlattenSeq(pieces), w) = Often(FlattenSeq(singles), w)
    BY <1>3, <1>4, <2>1, OftenFlattened
  <2>3. QED
    BY <1>4, <1>6, <2>2
<1>9. QED
  BY <1>7, <1>8

\* So has the whole text.
LEMMA TextTokens ==
  ASSUME NEW txt \in Texts
  PROVE  /\ Len(txt) \in Nat /\ DOMAIN txt = 1..Len(txt)
         /\ \A k \in DOMAIN txt : txt[k] \in Seq(Tokens)
         /\ Whole(txt) \in Seq(Tokens)
         /\ ExpandedText(txt) \in Seq(Tokens)
         /\ \A w \in Numerals : Often(ExpandedText(txt), w) = Often(Whole(txt), w)
<1> DEFINE n == Len(txt)
           expanded == [k \in DOMAIN txt |-> Expanded(txt[k])]
<1>1. txt \in Seq(Seq(Tokens))
  BY DEF Texts
<1>2. n \in Nat /\ DOMAIN txt = 1..n /\ \A k \in 1..n : txt[k] \in Seq(Tokens)
  BY <1>1, LenProperties, ElementOfSeq
<1>3. expanded \in Seq(Seq(Tokens)) /\ Len(expanded) = n /\ \A k \in 1..n : expanded[k] = Expanded(txt[k])
  BY <1>2, ExpandedTokens
<1> HIDE DEF expanded, n
<1>4. Whole(txt) = FlattenSeq(txt) /\ ExpandedText(txt) = FlattenSeq(expanded)
  BY DEF Whole, ExpandedText, expanded
<1>5. Whole(txt) \in Seq(Tokens) /\ ExpandedText(txt) \in Seq(Tokens)
  BY <1>1, <1>3, <1>4, FlattenedSeq
<1>6. ASSUME NEW w \in Numerals
      PROVE  Often(ExpandedText(txt), w) = Often(Whole(txt), w)
  <2>1. \A k \in 1..Len(expanded) : Often(expanded[k], w) = Often(txt[k], w)
    BY <1>2, <1>3, ExpandedTokens
  <2>2. QED
    BY <1>1, <1>3, <1>4, <2>1, OftenFlattened DEF n
<1>7. QED
  BY <1>2, <1>5, <1>6 DEF n

\* A counter counts, and the words that are left of two counters are those that
\* the first has more copies of.
LEMMA Counting ==
  ASSUME NEW s \in Seq(Tokens), NEW P \in SUBSET DOMAIN s, NEW w
  PROVE  /\ Copies(w, Counted(Words(s), P)) = Cardinality({i \in P : s[i].word = w})
         /\ Copies(w, Counted(Words(s), P)) \in Nat
         /\ w \notin DOMAIN Counted(Words(s), P) => Copies(w, Counted(Words(s), P)) = 0
<1> DEFINE c == Counted(Words(s), P)
           Q == {i \in P : s[i].word = w}
<1>1. \A i \in P : Words(s)[i] = s[i].word
  BY DEF Words
<1>2. DOMAIN c = {Words(s)[i] : i \in P}
  BY DEF Counted
<1>3. w \in DOMAIN c => c[w] = Cardinality({i \in P : Words(s)[i] = w})
  BY DEF Counted
<1>4. {i \in P : Words(s)[i] = w} = Q
  BY <1>1
<1>5. Cardinality(Q) \in Nat
  <2>1. Q \in SUBSET DOMAIN s
    OBVIOUS
  <2> HIDE DEF Q
  <2>2. QED
    BY <2>1, PlacesFinite
<1>6. w \notin DOMAIN c => Q = {}
  BY <1>1, <1>2
<1> HIDE DEF c, Q
<1>7. Copies(w, c) = Cardinality(Q) /\ (w \notin DOMAIN c => Copies(w, c) = 0)
  BY <1>3, <1>4, <1>6, FS_EmptySet DEF Copies
<1>8. QED
  BY <1>5, <1>7 DEF c, Q

\* The counters of semantic_check are counters of the words at some places.
LEMMA ContentCounts ==
  ASSUME NEW txt \in Texts, NEW w
  PROVE  /\ Copies(w, Content(txt)) \in Nat
         /\ w \notin DOMAIN Content(txt) => Copies(w, Content(txt)) = 0
         /\ w \notin Stopwords /\ w \notin Numerals =>
              Copies(w, Content(txt)) = Often(ExpandedText(txt), w)
<1> DEFINE s == ExpandedText(txt)
           P == ContentWords(s)
<1>1. s \in Seq(Tokens) /\ DOMAIN s = 1..Len(s) /\ P \in SUBSET DOMAIN s
  BY TextTokens, LenProperties DEF ContentWords
<1>2. Content(txt) = Counted(Words(s), P)
  BY DEF Content
<1>3. \A i \in DOMAIN s : s[i] \in Tokens
  BY <1>1, ElementOfSeq
<1>4. w \notin Stopwords /\ w \notin Numerals => {i \in P : s[i].word = w} = Places(s, w)
  BY <1>3 DEF ContentWords, Places, Tokens
<1> HIDE DEF P, s
<1>5. /\ Copies(w, Content(txt)) = Cardinality({i \in P : s[i].word = w})
      /\ Copies(w, Content(txt)) \in Nat
      /\ w \notin DOMAIN Content(txt) => Copies(w, Content(txt)) = 0
  <2>1. /\ Copies(w, Counted(Words(s), P)) = Cardinality({i \in P : s[i].word = w})
        /\ Copies(w, Counted(Words(s), P)) \in Nat
        /\ w \notin DOMAIN Counted(Words(s), P) => Copies(w, Counted(Words(s), P)) = 0
    BY <1>1, Counting
  <2>2. QED
    BY <1>2, <2>1, Zenon
<1>6. w \notin Stopwords /\ w \notin Numerals => Copies(w, Content(txt)) = Often(s, w)
  BY <1>4, <1>5 DEF Often
<1>7. QED
  BY <1>5, <1>6 DEF s

\* _numbers counts numbers before the contractions are expanded, which changes
\* nothing.
LEMMA NumbersCount ==
  ASSUME NEW txt \in Texts, NEW w \in Numerals
  PROVE  Copies(w, Numbers(txt)) = Often(ExpandedText(txt), w)
<1> DEFINE s == Whole(txt)
           P == {i \in DOMAIN s : s[i].form = "number"}
<1>1. s \in Seq(Tokens) /\ DOMAIN s = 1..Len(s) /\ P \in SUBSET DOMAIN s
  BY TextTokens, LenProperties
<1>2. Numbers(txt) = Counted(Words(s), P)
  BY DEF Numbers
<1>3. \A i \in DOMAIN s : s[i] \in Tokens
  BY <1>1, ElementOfSeq
<1>4. {i \in P : s[i].word = w} = Places(s, w)
  BY <1>3 DEF Places, Tokens
<1> HIDE DEF P
<1>5. Copies(w, Numbers(txt)) = Often(s, w)
  BY <1>1, <1>2, <1>4, Counting DEF Often
<1>6. QED
  BY <1>5, TextTokens

\* What is left of one counter without the other.
LEMMA SurplusCopies ==
  ASSUME NEW o \in Texts, NEW n \in Texts, NEW w
  PROVE  w \in Surplus(Content(o), Content(n)) <=> Copies(w, Content(o)) > Copies(w, Content(n))
<1>1. Copies(w, Content(o)) \in Nat /\ Copies(w, Content(n)) \in Nat
  BY ContentCounts
<1>2. CASE w \in DOMAIN Content(o)
  BY <1>2 DEF Surplus, Copies
<1>3. CASE w \notin DOMAIN Content(o)
  BY <1>1, <1>3, ContentCounts DEF Surplus
<1>4. QED
  BY <1>2, <1>3

\* A check without problems, or with problems of sentences alone, has found
\* what it compares of the whole text kept.
LEMMA ProblemsOfSentences ==
  ASSUME NEW o \in Texts, NEW n \in Texts
  PROVE  SemanticCheck(o, n) \subseteq {<<"sentence", k>> : k \in DOMAIN o} <=>
           /\ Numbers(o) = Numbers(n)
           /\ NegationsOf(o) = NegationsOf(n)
           /\ ProperNouns(o) \subseteq ProperNouns(n)
           /\ Missing(Content(o), Content(n)) = {}
           /\ Invented(Content(o), Content(n)) = {}
<1> DEFINE Wrong == {<<name>> : name \in {"numbers", "negations", "nouns", "dropped", "added"}}
           Sentences == {<<"sentence", k>> : k \in DOMAIN o}
           Short == {<<"sentence", k>> : k \in Unaligned(o, n)}
           Found(name, is) == IF is THEN {<<name>>} ELSE {}
<1>1. Unaligned(o, n) \subseteq DOMAIN o
  BY DEF Unaligned
<1>2. Short \subseteq Sentences
  BY <1>1
<1>3. \A name : <<name>> \notin Sentences
  <2> SUFFICES ASSUME NEW name, NEW k \in DOMAIN o, <<name>> = <<"sentence", k>>
               PROVE  FALSE
    OBVIOUS
  <2>1. Len(<<name>>) = 1 /\ Len(<<"sentence", k>>) = 2
    OBVIOUS
  <2>2. QED
    BY <2>1
<1>4. SemanticCheck(o, n) =
        Found("numbers", Numbers(o) # Numbers(n))
        \cup Found("negations", NegationsOf(o) # NegationsOf(n))
        \cup Found("nouns", ProperNouns(o) \ ProperNouns(n) # {})
        \cup Found("dropped", Missing(Content(o), Content(n)) # {})
        \cup Found("added", Invented(Content(o), Content(n)) # {})
        \cup Short
  BY DEF SemanticCheck
<1> HIDE DEF Sentences, Short
<1>5. \A name, is : Found(name, is) \subseteq Sentences <=> ~ is
  BY <1>3
<1> HIDE DEF Found
<1>6. QED
  BY <1>2, <1>4, <1>5 DEF Sentences

\* len(problems) is a number, and 0 only if there is none.
LEMMA CheckFinite ==
  ASSUME NEW o \in Texts, NEW n \in Texts
  PROVE  /\ Cardinality(SemanticCheck(o, n)) \in Nat
         /\ Cardinality(SemanticCheck(o, n)) = 0 => SemanticCheck(o, n) = {}
<1> DEFINE Named == {<<"numbers">>, <<"negations">>, <<"nouns">>, <<"dropped">>, <<"added">>}
           Sentences == {<<"sentence", k>> : k \in DOMAIN o}
           f == [k \in DOMAIN o |-> <<"sentence", k>>]
<1>1. IsFiniteSet(DOMAIN o)
  BY TextTokens, FS_Interval
<1>2. f \in Surjection(DOMAIN o, Sentences)
  <2>1. f \in [DOMAIN o -> Sentences] /\ \A t \in Sentences : \E k \in DOMAIN o : f[k] = t
    OBVIOUS
  <2> HIDE DEF f, Sentences
  <2>2. QED
    BY <2>1 DEF Surjection
<1>3. IsFiniteSet(Sentences)
  <2> HIDE DEF f, Sentences
  <2>1. QED
    BY <1>1, <1>2, FS_Surjection
<1>4. IsFiniteSet(Sentences \cup {<<"numbers">>} \cup {<<"negations">>} \cup {<<"nouns">>}
                  \cup {<<"dropped">>} \cup {<<"added">>})
  <2> HIDE DEF Sentences
  <2>1. QED
    BY <1>3, FS_AddElement
<1>5. Unaligned(o, n) \subseteq DOMAIN o
  BY DEF Unaligned
<1>6. SemanticCheck(o, n) \subseteq Named \cup Sentences
  BY <1>5 DEF SemanticCheck
<1> HIDE DEF Sentences
<1>7. IsFiniteSet(Named \cup Sentences)
  <2>1. Named \cup Sentences = Sentences \cup {<<"numbers">>} \cup {<<"negations">>} \cup {<<"nouns">>}
                                \cup {<<"dropped">>} \cup {<<"added">>}
    OBVIOUS
  <2>2. QED
    BY <1>4, <2>1
<1> HIDE DEF Named
<1>8. IsFiniteSet(SemanticCheck(o, n))
  BY <1>6, <1>7, FS_Subset
<1>9. QED
  BY <1>8, FS_CardinalityType, FS_EmptySet

\* What semantic_check has no problem with says the same to a reader.
LEMMA PassedSaysTheSame ==
  ASSUME NEW a \in Texts, NEW b \in Texts, SemanticCheck(a, b) = {}
  PROVE  SaysTheSame(a, b)
<1> DEFINE o == ExpandedText(a)
           n == ExpandedText(b)
           was == Counted(Words(o), DOMAIN o)
           is == Counted(Words(n), DOMAIN n)
           more(w) == Copies(w, is) - Copies(w, was)
<1>1. /\ Numbers(a) = Numbers(b)
      /\ NegationsOf(a) = NegationsOf(b)
      /\ Missing(Content(a), Content(b)) = {}
      /\ Invented(Content(a), Content(b)) = {}
  <2>1. SemanticCheck(a, b) \subseteq {<<"sentence", k>> : k \in DOMAIN a}
    OBVIOUS
  <2>2. QED
    BY <2>1, ProblemsOfSentences
<1>2. o \in Seq(Tokens) /\ n \in Seq(Tokens)
  BY TextTokens
<1>3. \A w : /\ Copies(w, was) = Often(o, w) /\ Copies(w, is) = Often(n, w)
             /\ Often(o, w) \in Nat /\ Often(n, w) \in Nat
  <2> HIDE DEF o, n
  <2>1. DOMAIN o \in SUBSET DOMAIN o /\ DOMAIN n \in SUBSET DOMAIN n
    OBVIOUS
  <2>2. QED
    BY <1>2, <2>1, Counting, PlacesFinite DEF Often, Places
<1>4. ASSUME NEW w \in Numerals
      PROVE  more(w) = 0
  <2>1. Often(o, w) = Often(n, w)
    BY <1>1, NumbersCount
  <2> HIDE DEF o, n, was, is
  <2>2. QED
    BY <1>3, <2>1
<1>5. ASSUME NEW w, w \notin Numerals, w \notin Stopwords
      PROVE  \/ more(w) = 0
             \/ more(w) < 0 /\ w \in Droppable
             \/ more(w) > 0 /\ w \in Allowlist
  <2>1. Copies(w, Content(a)) = Often(o, w) /\ Copies(w, Content(b)) = Often(n, w)
    BY <1>5, ContentCounts
  <2>2. Often(o, w) > Often(n, w) => w \in Droppable
    BY <1>1, <2>1, SurplusCopies DEF Missing
  <2>3. Often(n, w) > Often(o, w) => w \in Allowlist
    BY <1>1, <1>5, <2>1, SurplusCopies DEF Invented
  <2> HIDE DEF o, n, was, is
  <2>4. QED
    BY <1>3, <2>2, <2>3
<1>6. ASSUME NEW t \in Range(o \o n)
      PROVE  t.form = "number" <=> t.word \in Numerals
  <2> HIDE DEF o, n
  <2>1. o \o n \in Seq(Tokens)
    BY <1>2, ConcatProperties
  <2>2. PICK i \in DOMAIN (o \o n) : t = (o \o n)[i]
    BY DEF Range
  <2>3. t \in Tokens
    BY <2>1, <2>2, LenProperties, ElementOfSeq
  <2>4. QED
    BY <2>3 DEF Tokens
<1> HIDE DEF was, is
<1>7. ASSUME NEW t \in Range(o \o n)
      PROVE  LET m == more(t.word)
             IN IF t.form = "number" THEN m = 0
                ELSE \/ t.word \in Stopwords
                     \/ m = 0
                     \/ m < 0 /\ t.word \in Droppable
                     \/ m > 0 /\ t.word \in Allowlist
  <2> HIDE DEF more, o, n
  <2>1. QED
    BY <1>4, <1>5, <1>6
<1>8. QED
  BY <1>1, <1>7 DEF SaysTheSame, was, is

\* What passes the check twice, against a text between, would have passed
\* it at once but for its comparison by sentences.
LEMMA PassedTwice ==
  ASSUME NEW a \in Texts, NEW b \in Texts, NEW c \in Texts,
         SemanticCheck(a, b) = {}, SemanticCheck(b, c) = {}
  PROVE  SemanticCheck(a, c) \subseteq {<<"sentence", k>> : k \in DOMAIN a}
<1> DEFINE Kept(o, n) ==
             /\ Numbers(o) = Numbers(n)
             /\ NegationsOf(o) = NegationsOf(n)
             /\ ProperNouns(o) \subseteq ProperNouns(n)
             /\ Missing(Content(o), Content(n)) = {}
             /\ Invented(Content(o), Content(n)) = {}
<1>1. Kept(a, b)
  <2>1. SemanticCheck(a, b) \subseteq {<<"sentence", k>> : k \in DOMAIN a}
    OBVIOUS
  <2>2. QED
    BY <2>1, ProblemsOfSentences
<1>2. Kept(b, c)
  <2>1. SemanticCheck(b, c) \subseteq {<<"sentence", k>> : k \in DOMAIN b}
    OBVIOUS
  <2>2. QED
    BY <2>1, ProblemsOfSentences
<1>3. \A w : /\ Copies(w, Content(a)) \in Nat
             /\ Copies(w, Content(b)) \in Nat
             /\ Copies(w, Content(c)) \in Nat
  BY ContentCounts
<1>4. Missing(Content(a), Content(c)) = {}
  <2> SUFFICES ASSUME NEW w, w \in Surplus(Content(a), Content(c))
               PROVE  w \in Droppable
    BY DEF Missing
  <2>1. Copies(w, Content(a)) > Copies(w, Content(c))
    BY SurplusCopies
  <2>2. \/ Copies(w, Content(a)) > Copies(w, Content(b))
        \/ Copies(w, Content(b)) > Copies(w, Content(c))
    BY <1>3, <2>1
  <2>3. w \in Surplus(Content(a), Content(b)) \/ w \in Surplus(Content(b), Content(c))
    BY <2>2, SurplusCopies
  <2>4. QED
    BY <1>1, <1>2, <2>3 DEF Missing
<1>5. Invented(Content(a), Content(c)) = {}
  <2> SUFFICES ASSUME NEW w, w \in Surplus(Content(c), Content(a))
               PROVE  w \in Allowlist \cup Stopwords
    BY DEF Invented
  <2>1. Copies(w, Content(c)) > Copies(w, Content(a))
    BY SurplusCopies
  <2>2. \/ Copies(w, Content(c)) > Copies(w, Content(b))
        \/ Copies(w, Content(b)) > Copies(w, Content(a))
    BY <1>3, <2>1
  <2>3. w \in Surplus(Content(c), Content(b)) \/ w \in Surplus(Content(b), Content(a))
    BY <2>2, SurplusCopies
  <2>4. QED
    BY <1>1, <1>2, <2>3 DEF Invented
<1>6. Kept(a, c)
  BY <1>1, <1>2, <1>4, <1>5
<1>7. QED
  BY <1>6, ProblemsOfSentences
-----------------------------------------------------------------------------
\* The larger one of two numbers.
LEMMA Larger ==
  ASSUME NEW n \in Int, NEW m \in Int
  PROVE  AtLeast(n, m) = IF n >= m THEN n ELSE m
<1>1. \E x \in {n, m} : \A y \in {n, m} : x >= y
  OBVIOUS
<1>2. Max({n, m}) \in {n, m} /\ \A y \in {n, m} : Max({n, m}) >= y
  BY <1>1 DEF Max
<1>3. QED
  BY <1>2 DEF AtLeast

\* And the smaller one.
LEMMA Smaller ==
  ASSUME NEW n \in Int, NEW m \in Int
  PROVE  AtMost(n, m) = IF n <= m THEN n ELSE m
<1>1. \E x \in {n, m} : \A y \in {n, m} : x <= y
  OBVIOUS
<1>2. Min({n, m}) \in {n, m} /\ \A y \in {n, m} : Min({n, m}) <= y
  BY <1>1 DEF Min
<1>3. QED
  BY <1>2 DEF AtMost

IsPlan(p) == p \in [level : 0..100, structural : BOOLEAN]

\* Two or five plans, and the extra ones, all of a level from 0 to 100.
LEMMA PlansAre ==
  ASSUME intensity \in 0..100, short \in BOOLEAN
  PROVE  /\ Len(Plans) \in {2, 5} /\ \A i \in 1..Len(Plans) : IsPlan(Plans[i])
         /\ \A i \in 1..2 : IsPlan(Extras[i])
<1>1. AtLeast(35, intensity - 15) \in 0..100 /\ AtLeast(25, intensity - 30) \in 0..100
      /\ AtLeast(20, intensity - 50) \in 0..100
  BY Larger
<1>2. Capped(intensity + 12) \in 0..100
  BY Smaller DEF Capped
<1>3. Len(Base) = 5 /\ \A i \in 1..5 : IsPlan(Base[i])
  <2>1. IsPlan(Base[1]) /\ IsPlan(Base[2]) /\ IsPlan(Base[3]) /\ IsPlan(Base[4]) /\ IsPlan(Base[5])
    BY <1>1, <1>2 DEF Base, Plan, IsPlan
  <2>2. Len(Base) = 5
    BY DEF Base
  <2>3. \A i \in 1..5 : i = 1 \/ i = 2 \/ i = 3 \/ i = 4 \/ i = 5
    OBVIOUS
  <2>4. QED
    BY <2>1, <2>2, <2>3
<1>4. \A i \in 1..5 : IsPlan(Softened(Base[i]))
  <2> SUFFICES ASSUME NEW i \in 1..5
               PROVE  IsPlan(Softened(Base[i]))
    OBVIOUS
  <2> DEFINE l == Base[i].level
  <2>1. l \in 0..100 /\ Base[i].structural \in BOOLEAN
    BY <1>3 DEF IsPlan
  <2> HIDE DEF l
  <2>2. (l * 3) \div 4 \in 0..100
    BY <2>1
  <2>3. AtLeast(20, (l * 3) \div 4) \in 0..100
    BY <2>2, Larger
  <2>4. QED
    BY <2>1, <2>3 DEF Softened, Plan, IsPlan, l
<1>5. Len(SubSeq(Base, 1, 2)) = 2 /\ \A i \in 1..2 : SubSeq(Base, 1, 2)[i] = Base[i]
  BY DEF Base
<1>6. Len([i \in 1..5 |-> Softened(Base[i])]) = 5
  <2> DEFINE g == [i \in 1..5 |-> Softened(Base[i])]
  <2>1. g \in Seq([level : 0..100, structural : BOOLEAN]) /\ DOMAIN g = 1..5
    BY <1>4 DEF IsPlan
  <2> HIDE DEF g
  <2>2. Len(g) = 5
    BY <2>1, LenProperties
  <2>3. QED
    BY <2>2 DEF g
<1>7. Len(Plans) \in {2, 5} /\ \A i \in 1..Len(Plans) : IsPlan(Plans[i])
  <2>1. CASE Tier = "low"
    BY <1>3, <1>5, <2>1 DEF Plans
  <2>2. CASE Tier # "low" /\ short
    BY <1>4, <1>6, <2>2 DEF Plans
  <2>3. CASE Tier # "low" /\ ~ short
    BY <1>3, <2>3 DEF Plans
  <2>4. QED
    BY <2>1, <2>2, <2>3
<1>8. \A i \in 1..2 : IsPlan(Extras[i])
  <2>1. (intensity * 35) \div 100 \in 0..100 /\ (intensity * 115) \div 100 \in 0..200
    OBVIOUS
  <2>2. AtLeast(20, (intensity * 35) \div 100) \in 0..100
    BY <2>1, Larger
  <2>3. Capped((intensity * 115) \div 100) \in 0..100
    BY <2>1, Smaller DEF Capped
  <2>4. IsPlan(Extras[1]) /\ IsPlan(Extras[2])
    BY <2>2, <2>3 DEF Extras, Plan, IsPlan
  <2>5. \A i \in 1..2 : i = 1 \/ i = 2
    OBVIOUS
  <2>6. QED
    BY <2>4, <2>5
<1>9. QED
  BY <1>7, <1>8

Record == [candidate : Rewritings[text], claims : Nat, level : 5..100, structural : BOOLEAN]

CandidatesOK ==
  /\ text \in Originals
  /\ intensity \in 0..100
  /\ records \in Seq(Record)
  /\ \A i \in DOMAIN records : records[i].claims = PreCheck[text][records[i].candidate]

\* What every rewriting of an original is assumed to be, and the number of its
\* problems.
LEMMA Measures ==
  ASSUME NEW o \in Originals, NEW c \in Rewritings[o]
  PROVE  /\ c.text \in Texts /\ o \in Texts
         /\ c.wording \in Nat /\ c.score \in Nat
         /\ c.similarity \in Nat /\ c.distance \in Nat
         /\ PreCheck[o][c] = Cardinality(SemanticCheck(o, c.text))
         /\ PreCheck[o][c] \in Nat
         /\ PreCheck[o][c] = 0 => SemanticCheck(o, c.text) = {}
<1>1. c \in UNION Range(Rewritings)
  BY SelectionAssumption DEF Range
<1>2. /\ c.text \in Texts /\ o \in Texts
      /\ c.wording \in Nat /\ c.score \in Nat
      /\ c.similarity \in Nat /\ c.distance \in Nat
  <2>1. \A x : x \in 0..1000 => x \in Nat
    OBVIOUS
  <2>2. /\ c.text \in Texts /\ o \in Texts /\ c.wording \in Nat
        /\ c.score \in 0..1000 /\ c.similarity \in 0..1000 /\ c.distance \in 0..1000
    BY <1>1, SelectionAssumption
  <2>3. c.score \in Nat /\ c.similarity \in Nat /\ c.distance \in Nat
    BY <2>1, <2>2, Zenon
  <2>4. QED
    BY <2>2, <2>3
<1>3. PreCheck[o][c] = Cardinality(SemanticCheck(o, c.text))
  BY DEF PreCheck
<1>4. QED
  BY <1>2, <1>3, CheckFinite

\* The attempts are a finite sequence of records.
LEMMA RecordsAre ==
  ASSUME CandidatesOK
  PROVE  /\ Len(records) \in Nat /\ DOMAIN records = 1..Len(records)
         /\ IsFiniteSet(DOMAIN records)
         /\ Eligible \subseteq DOMAIN records
         /\ \A i \in DOMAIN records : records[i] \in Record /\ records[i].candidate \in Rewritings[text]
<1>1. Len(records) \in Nat /\ DOMAIN records = 1..Len(records)
  BY LenProperties DEF CandidatesOK
<1>2. \A i \in DOMAIN records : records[i] \in Record
  BY <1>1, ElementOfSeq DEF CandidatesOK
<1>3. \A i \in DOMAIN records : records[i].candidate \in Rewritings[text]
  BY <1>2 DEF Record
<1>4. IsFiniteSet(DOMAIN records)
  BY <1>1, FS_Interval
<1>5. QED
  BY <1>1, <1>2, <1>3, <1>4 DEF Eligible

\* max(0, ...) of the penalties.
LEMMA LargestOf ==
  ASSUME NEW x \in Int, NEW y \in Int
  PROVE  Max({0, x, y}) \in Nat
<1>1. \E z \in {0, x, y} : \A u \in {0, x, y} : z >= u
  OBVIOUS
<1>2. Max({0, x, y}) \in {0, x, y} /\ Max({0, x, y}) >= 0
  BY <1>1 DEF Max
<1>3. QED
  BY <1>2

\* rank is a number, so that the candidates can be compared.
LEMMA RankIsNat ==
  ASSUME CandidatesOK, NEW i \in DOMAIN records
  PROVE  Rank(records[i].candidate) \in Nat
<1> DEFINE c == records[i].candidate
<1>1. c.score \in Nat /\ c.similarity \in Nat /\ c.distance \in Nat
  <2>1. c \in Rewritings[text] /\ text \in Originals
    BY RecordsAre DEF CandidatesOK
  <2> HIDE DEF c
  <2>2. QED
    BY <2>1, Measures
<1>2. Window.lo \in Nat /\ Window.hi \in Nat /\ Floor \in Nat
  <2>1. intensity <= 33 \/ intensity \in 34..66 \/ intensity >= 67
    BY DEF CandidatesOK
  <2>2. Tier = "low" \/ Tier = "medium" \/ Tier = "high"
    <3>1. CASE intensity <= 33
      BY <3>1 DEF Tier, CandidatesOK
    <3>2. CASE intensity \in 34..66
      BY <3>2 DEF Tier, CandidatesOK
    <3>3. CASE intensity >= 67
      BY <3>3 DEF Tier, CandidatesOK
    <3>4. QED
      BY <2>1, <3>1, <3>2, <3>3
  <2>3. QED
    BY <2>2 DEF Window, Floor
<1> HIDE DEF c
<1>3. Max({0, Window.lo - c.similarity, c.similarity - Window.hi}) \in Nat
  <2>1. Window.lo - c.similarity \in Int /\ c.similarity - Window.hi \in Int
    BY <1>1, <1>2
  <2>2. QED
    BY <2>1, LargestOf
<1>4. AtLeast(0, Floor - c.distance) \in Nat
  BY <1>1, <1>2, Larger
<1>5. Rank(c) \in Nat
  BY <1>1, <1>3, <1>4 DEF Rank
<1>6. QED
  BY <1>5 DEF c

\* The records are totally ordered by Better.
LEMMA Order ==
  ASSUME CandidatesOK
  PROVE  \A i, j \in DOMAIN records :
           /\ ~ (Better(i, j) /\ Better(j, i))
           /\ i = j \/ Better(i, j) \/ Better(j, i)
<1> SUFFICES ASSUME NEW i \in DOMAIN records, NEW j \in DOMAIN records
             PROVE  /\ ~ (Better(i, j) /\ Better(j, i))
                    /\ i = j \/ Better(i, j) \/ Better(j, i)
  OBVIOUS
<1> DEFINE a == Rank(records[i].candidate)
           b == Rank(records[j].candidate)
<1>1. a \in Nat /\ b \in Nat
  BY RankIsNat
<1>2. i \in Nat /\ j \in Nat
  BY RecordsAre
<1>3. /\ Better(i, j) <=> a < b \/ (a = b /\ i < j)
      /\ Better(j, i) <=> b < a \/ (b = a /\ j < i)
  BY DEF Better
<1> HIDE DEF a, b
<1>4. QED
  BY <1>1, <1>2, <1>3

\* Some candidates have a best one.
LEMMA BestIs ==
  ASSUME CandidatesOK, NEW S \in SUBSET DOMAIN records, S # {}
  PROVE  /\ Best(S) \in S
         /\ \A j \in S \ {Best(S)} : Better(Best(S), j)
<1> DEFINE rank(i) == Rank(records[i].candidate)
           Ranks == {rank(i) : i \in S}
<1>1. DOMAIN records \subseteq Nat /\ \A i \in S : rank(i) \in Nat
  BY RecordsAre, RankIsNat
<1>2. PICK m \in Ranks : \A k \in Ranks : m <= k
  <2>1. Ranks \in SUBSET Nat /\ Ranks # {}
    BY <1>1
  <2> HIDE DEF Ranks
  <2>2. QED
    BY <2>1, Smallest
<1> DEFINE First == {i \in S : rank(i) = m}
<1>3. PICK b \in First : \A k \in First : b <= k
  <2>1. First \in SUBSET Nat /\ First # {}
    BY <1>1
  <2> HIDE DEF First
  <2>2. QED
    BY <2>1, Smallest
<1>4. ASSUME NEW j \in S \ {b}
      PROVE  Better(b, j)
  <2>1. rank(b) = m /\ rank(j) \in Nat /\ m \in Nat /\ m <= rank(j)
    BY <1>1, <1>2, <1>3
  <2>2. rank(j) = m => b <= j
    BY <1>3
  <2>3. b \in Nat /\ j \in Nat /\ b # j
    BY <1>1, <1>3
  <2>4. Better(b, j) <=> rank(b) < rank(j) \/ (rank(b) = rank(j) /\ b < j)
    BY DEF Better
  <2> HIDE DEF rank
  <2>5. QED
    BY <2>1, <2>2, <2>3, <2>4
<1>5. b \in S /\ \A j \in S \ {b} : Better(b, j)
  BY <1>3, <1>4
<1> HIDE DEF First, Ranks
<1>6. QED
  BY <1>5, Zenon DEF Best

\* The k best of those that passed, or all of them if there are fewer.
Segment(S, k) ==
  /\ S \subseteq Eligible
  /\ \A i \in S, j \in Eligible \ S : Better(i, j)
  /\ \/ Cardinality(S) = k
     \/ S = Eligible /\ Cardinality(S) <= k

\* Adding the best of the others makes one more of them.
LEMMA WithNextSegment ==
  ASSUME CandidatesOK, NEW k \in Nat, NEW S, Segment(S, k)
  PROVE  Segment(WithNext(S), k + 1)
<1>1. /\ Eligible \subseteq DOMAIN records
      /\ IsFiniteSet(S) /\ Cardinality(S) \in Nat
  BY RecordsAre, FS_Subset, FS_CardinalityType DEF Segment
<1>2. CASE S = Eligible
  BY <1>1, <1>2 DEF Segment, WithNext
<1>3. CASE S # Eligible
  <2> DEFINE b == Best(Eligible \ S)
  <2>1. /\ b \in Eligible \ S
        /\ \A j \in (Eligible \ S) \ {b} : Better(b, j)
    <3>1. Eligible \ S \in SUBSET DOMAIN records /\ Eligible \ S # {}
      BY <1>1, <1>3 DEF Segment
    <3>2. QED
      BY <3>1, BestIs
  <2> HIDE DEF b
  <2>2. Cardinality(S \cup {b}) = k + 1
    BY <1>1, <1>3, <2>1, FS_AddElement DEF Segment
  <2>3. WithNext(S) = S \cup {b}
    BY <1>3 DEF WithNext, b
  <2>4. S \cup {b} \subseteq Eligible
    BY <2>1 DEF Segment
  <2>5. \A i \in S \cup {b}, j \in Eligible \ (S \cup {b}) : Better(i, j)
    BY <2>1, Zenon DEF Segment
  <2>6. QED
    BY <2>2, <2>3, <2>4, <2>5 DEF Segment
<1>4. QED
  BY <1>2, <1>3

\* eligible[:3] are those that fewer than three are better than.
LEMMA LeadersAreNear ==
  ASSUME CandidatesOK
  PROVE  /\ Leaders \subseteq Eligible
         /\ \A i \in Leaders, j \in Eligible \ Leaders : Better(i, j)
         /\ Leaders = {i \in Eligible : Cardinality({j \in Eligible : Better(j, i)}) < 3}
<1> DEFINE Ahead(i) == {j \in Eligible : Better(j, i)}
<1>1. Segment({}, 0)
  BY FS_EmptySet DEF Segment
<1>2. Segment(WithNext({}), 1)
  BY <1>1, WithNextSegment
<1>3. Segment(WithNext(WithNext({})), 2)
  BY <1>2, WithNextSegment
<1>4. Segment(Leaders, 3)
  BY <1>3, WithNextSegment DEF Leaders
<1>5. /\ Eligible \subseteq DOMAIN records
      /\ IsFiniteSet(Leaders) /\ Cardinality(Leaders) \in Nat
      /\ \A i : IsFiniteSet(Ahead(i)) /\ Cardinality(Ahead(i)) \in Nat
  <2>1. IsFiniteSet(Eligible) /\ Eligible \subseteq DOMAIN records
    BY RecordsAre, FS_Subset
  <2>2. \A i : Ahead(i) \in SUBSET Eligible
    OBVIOUS
  <2> HIDE DEF Ahead
  <2>3. QED
    BY <1>4, <2>1, <2>2, FS_Subset, FS_CardinalityType DEF Segment
<1>6. ASSUME NEW i \in Leaders
      PROVE  Cardinality(Ahead(i)) < 3
  <2>1. i \in Eligible /\ i \in DOMAIN records
    BY <1>4, <1>5 DEF Segment
  <2>2. Ahead(i) \subseteq Leaders \ {i}
    <3> SUFFICES ASSUME NEW j \in Eligible, Better(j, i)
                 PROVE  j \in Leaders /\ j # i
      OBVIOUS
    <3>1. ~ Better(i, j) /\ j # i
      BY <1>5, <2>1, Order
    <3>2. QED
      BY <1>4, <3>1, Zenon DEF Segment
  <2>3. IsFiniteSet(Leaders \ {i}) /\ Cardinality(Leaders \ {i}) = Cardinality(Leaders) - 1
    BY <1>5, FS_RemoveElement
  <2> HIDE DEF Ahead
  <2>4. Cardinality(Ahead(i)) <= Cardinality(Leaders) - 1
    BY <2>2, <2>3, FS_Subset
  <2>5. Cardinality(Leaders) <= 3
    BY <1>4 DEF Segment
  <2>6. QED
    BY <1>5, <2>4, <2>5
<1>7. ASSUME NEW i \in Eligible \ Leaders
      PROVE  ~ (Cardinality(Ahead(i)) < 3)
  <2>1. Leaders \subseteq Ahead(i) /\ Cardinality(Leaders) = 3
    BY <1>4 DEF Segment
  <2> HIDE DEF Ahead
  <2>2. Cardinality(Leaders) <= Cardinality(Ahead(i))
    BY <1>5, <2>1, FS_Subset
  <2>3. QED
    BY <1>5, <2>1, <2>2
<1> HIDE DEF Ahead
<1>8. Leaders = {i \in Eligible : Cardinality(Ahead(i)) < 3}
  BY <1>4, <1>6, <1>7 DEF Segment
<1>9. QED
  BY <1>4, <1>8 DEF Segment, Ahead

\* How many attempts were made when a step is next.
ProgressOK ==
  /\ phase \in {"gate", "gentle", "plans", "extras", "choose", "done"}
  /\ phase \in {"gate", "gentle"} => Len(records) = 0
  /\ phase = "gentle" => baseline < Threshold
  /\ phase = "plans" => Len(records) < Len(Plans)
  /\ phase = "extras" => Len(records) \in Len(Plans)..(Len(Plans) + 1)
  /\ Len(records) <= Len(Plans) + 2

\* A text is returned at the end, and it is a candidate that passed: the pass of
\* a human text, or the choice among the attempts.
AnswerOK ==
  /\ answer \in [choice : Nat, verdict : {"none", "passed", "rejected"}, human : BOOLEAN]
  /\ phase # "done" => answer.choice = Repaired
  /\ answer.choice # Repaired =>
       /\ answer.choice \in DOMAIN records
       /\ KeepsClaims(records[answer.choice])
       /\ answer.human \/ (Eligible # {} /\ answer.choice = FirstThatParses)

SelectionIInv ==
  /\ short \in BOOLEAN
  /\ baseline \in Baselines
  /\ CandidatesOK
  /\ ProgressOK
  /\ AnswerOK

\* The first that parses is one that passed.
LEMMA FirstIsEligible ==
  ASSUME CandidatesOK, Eligible # {}
  PROVE  /\ FirstThatParses \in Eligible
         /\ FirstThatParses \in DOMAIN records
         /\ KeepsClaims(records[FirstThatParses])
         /\ records[FirstThatParses].candidate.wording = 0
<1> DEFINE S == IF Parsing = {} THEN Eligible ELSE Parsing
           r == FirstThatParses
<1>1. S \in SUBSET Eligible /\ S # {} /\ Eligible \subseteq DOMAIN records
  BY RecordsAre, LeadersAreNear DEF Parsing
<1>2. r = Best(S)
  BY DEF FirstThatParses
<1> HIDE DEF S, r
<1>3. r \in Eligible /\ r \in DOMAIN records
  BY <1>1, <1>2, BestIs
<1>4. /\ records[r].claims \in Nat /\ records[r].candidate.wording \in Nat
  <2>1. records[r] \in Record /\ records[r].candidate \in Rewritings[text] /\ text \in Originals
    BY <1>3, RecordsAre DEF CandidatesOK
  <2>2. records[r].claims \in Nat
    BY <2>1 DEF Record
  <2>3. QED
    BY <2>1, <2>2, Measures
<1>5. records[r].claims + records[r].candidate.wording = 0
  BY <1>3 DEF Eligible, Problems
<1>6. records[r].claims = 0 /\ records[r].candidate.wording = 0
  BY <1>4, <1>5
<1>7. QED
  BY <1>3, <1>6 DEF KeepsClaims, r

\* A pass adds one attempt, of which it knows the problems.
LEMMA PassKeeps ==
  ASSUME CandidatesOK, NEW p, IsPlan(p), Pass(p), UNCHANGED <<text, intensity>>
  PROVE  /\ CandidatesOK'
         /\ Len(records') = Len(records) + 1
<1>1. PICK c \in Rewritings[text] :
        records' = Append(records,
          [candidate |-> c, claims |-> PreCheck[text][c],
           level |-> AtLeast(5, p.level), structural |-> p.structural])
  BY DEF Pass
<1> DEFINE r == [candidate |-> c, claims |-> PreCheck[text][c],
                 level |-> AtLeast(5, p.level), structural |-> p.structural]
<1>2. text \in Originals /\ PreCheck[text][c] \in Nat
  BY Measures DEF CandidatesOK
<1>3. AtLeast(5, p.level) \in 5..100 /\ p.structural \in BOOLEAN
  BY Larger DEF IsPlan
<1>4. r \in Record
  BY <1>2, <1>3 DEF Record
<1>5. r.claims = PreCheck[text][r.candidate]
  OBVIOUS
<1> HIDE DEF r
<1>6. records \in Seq(Record) /\ Len(records) \in Nat /\ DOMAIN records = 1..Len(records)
  BY RecordsAre DEF CandidatesOK
<1>7. /\ records' \in Seq(Record)
      /\ Len(records') = Len(records) + 1
      /\ \A i \in 1..Len(records) : records'[i] = records[i]
      /\ records'[Len(records) + 1] = r
  BY <1>1, <1>4, <1>6, AppendProperties DEF r
<1>8. DOMAIN records' = 1..(Len(records) + 1)
  BY <1>7, LenProperties
<1>9. \A i \in DOMAIN records' : records'[i].claims = PreCheck[text][records'[i].candidate]
  <2> SUFFICES ASSUME NEW i \in DOMAIN records'
               PROVE  records'[i].claims = PreCheck[text][records'[i].candidate]
    OBVIOUS
  <2>1. i \in DOMAIN records \/ i = Len(records) + 1
    BY <1>6, <1>8
  <2>2. CASE i \in DOMAIN records
    BY <1>6, <1>7, <2>2 DEF CandidatesOK
  <2>3. CASE i = Len(records) + 1
    BY <1>5, <1>7, <2>3
  <2>4. QED
    BY <2>1, <2>2, <2>3
<1>10. Record' = Record /\ PreCheck' = PreCheck
  BY DEF Record, PreCheck
<1>11. QED
  BY <1>7, <1>9, <1>10 DEF CandidatesOK

\* The inductive invariant holds at the start, and after each step.
LEMMA SelectionInitial == SelectionInit => SelectionIInv
<1> SUFFICES ASSUME SelectionInit
             PROVE  SelectionIInv
  OBVIOUS
<1>1. intensity \in 0..100
  <2>1. PICK n \in Intensities : intensity = AtLeast(0, AtMost(100, n))
    BY DEF SelectionInit
  <2>2. n \in Int
    BY SelectionAssumption
  <2>3. QED
    BY <2>1, <2>2, Larger, Smaller
<1>2. records = <<>> /\ Len(records) = 0 /\ DOMAIN records = {}
  BY DEF SelectionInit
<1>3. CandidatesOK
  BY <1>1, <1>2 DEF SelectionInit, CandidatesOK
<1>4. ProgressOK
  <2>1. Len(Plans) \in {2, 5}
    BY <1>1, PlansAre DEF SelectionInit
  <2>2. QED
    BY <1>2, <2>1 DEF SelectionInit, ProgressOK
<1>5. AnswerOK
  BY DEF SelectionInit, AnswerOK, NoAnswer, Repaired
<1>6. QED
  BY <1>3, <1>4, <1>5 DEF SelectionInit, SelectionIInv
-----------------------------------------------------------------------------
\* What a step leaves alone of the text and its candidates.
LEMMA CandidatesStay ==
  ASSUME UNCHANGED <<text, intensity, records>>
  PROVE  /\ CandidatesOK => CandidatesOK'
         /\ Eligible' = Eligible
         /\ FirstThatParses' = FirstThatParses
<1>1. Record' = Record /\ PreCheck' = PreCheck
  BY DEF Record, PreCheck
<1>2. CandidatesOK => CandidatesOK'
  BY <1>1 DEF CandidatesOK
<1>3. Eligible' = Eligible
  BY DEF Eligible, Problems
<1>4. \A c : Rank(c)' = Rank(c)
  BY DEF Rank, Window, Floor, Tier
<1>5. \A i, j : Better(i, j)' = Better(i, j)
  BY <1>4 DEF Better
<1>6. \A S : Best(S)' = Best(S)
  BY <1>5 DEF Best
<1>7. \A S : WithNext(S)' = WithNext(S)
  BY <1>3, <1>6 DEF WithNext
<1>8. Leaders' = Leaders
  BY <1>7 DEF Leaders
<1>9. Parsing' = Parsing
  BY <1>8 DEF Parsing
<1>10. FirstThatParses' = FirstThatParses
  BY <1>3, <1>6, <1>9 DEF FirstThatParses
<1>11. QED
  BY <1>2, <1>3, <1>10

\* The plans depend on what was asked for.
LEMMA PlansStay ==
  ASSUME UNCHANGED <<intensity, short>>
  PROVE  Plans' = Plans
BY DEF Plans, Tier, Base, Softened, Capped

\* Returning a repair, whatever it reports.
LEMMA RepairIsOK ==
  ASSUME NEW n, Minimal(n)
  PROVE  phase' = "done" /\ AnswerOK'
BY DEF Minimal, Return, AnswerOK, Repaired

\* The first look at the text returns it repaired, or begins.
LEMMA GateKeeps ==
  ASSUME SelectionIInv, Gate
  PROVE  SelectionIInv'
<1>1. UNCHANGED <<text, intensity, short, baseline, records>> /\ phase = "gate" /\ Len(records) = 0
  BY DEF Gate, SelectionIInv, ProgressOK
<1>2. CandidatesOK' /\ Plans' = Plans /\ FirstThatParses' = FirstThatParses
  BY <1>1, CandidatesStay, PlansStay DEF SelectionIInv
<1>3. Len(Plans) \in {2, 5}
  BY PlansAre DEF SelectionIInv, CandidatesOK
<1>4. phase' \in {"gentle", "plans", "done"} /\ (phase' = "gentle" => baseline < Threshold)
  BY DEF Gate, Minimal, Return
<1>5. ProgressOK'
  <2>1. Len(records') = 0 /\ (phase' = "gentle" => baseline' < Threshold)
    BY <1>1, <1>4
  <2>2. QED
    BY <1>2, <1>3, <1>4, <2>1 DEF ProgressOK
<1>6. AnswerOK'
  <2>1. CASE Minimal(0)
    BY <2>1, RepairIsOK
  <2>2. CASE UNCHANGED answer
    BY <1>1, <2>2 DEF SelectionIInv, AnswerOK
  <2>3. QED
    BY <2>1, <2>2 DEF Gate
<1>7. QED
  BY <1>1, <1>2, <1>5, <1>6 DEF SelectionIInv

\* The pass of a human text is returned if it keeps its claims.
LEMMA GentleKeeps ==
  ASSUME SelectionIInv, Gentle
  PROVE  SelectionIInv'
<1>1. /\ UNCHANGED <<text, intensity, short, baseline>> /\ phase = "gentle" /\ Len(records) = 0
      /\ Pass(Plan(12, FALSE)) /\ CandidatesOK /\ IsPlan(Plan(12, FALSE))
  BY DEF Gentle, SelectionIInv, ProgressOK, Plan, IsPlan
<1>2. CandidatesOK' /\ Len(records') = 1 /\ Plans' = Plans
  <2>1. CandidatesOK' /\ Len(records') = Len(records) + 1
    BY <1>1, PassKeeps
  <2>2. QED
    BY <1>1, <2>1, PlansStay
<1>3. Len(Plans) \in {2, 5}
  BY <1>1, PlansAre DEF SelectionIInv, CandidatesOK
<1>4. phase' = "done"
  BY DEF Gentle, Minimal, Return
<1>5. ProgressOK'
  BY <1>1, <1>2, <1>3, <1>4 DEF ProgressOK
<1>6. AnswerOK'
  <2>1. CASE KeepsClaims(records'[1]) /\ Return(1, "passed")
    <3>1. answer' = [choice |-> 1, verdict |-> "passed", human |-> baseline < Threshold]
      BY <2>1 DEF Return
    <3>2. 1 \in DOMAIN records'
      BY <1>2, LenProperties DEF CandidatesOK
    <3>3. baseline < Threshold
      BY <1>1 DEF SelectionIInv, ProgressOK
    <3>4. QED
      BY <1>4, <2>1, <3>1, <3>2, <3>3 DEF AnswerOK, Repaired
  <2>2. CASE Minimal(records'[1].claims)
    BY <2>2, RepairIsOK
  <2>3. QED
    BY <2>1, <2>2 DEF Gentle
<1>7. QED
  BY <1>1, <1>2, <1>5, <1>6 DEF SelectionIInv

\* A step that only adds an attempt, and what was not answered is not answered.
LEMMA NotAnswered ==
  ASSUME SelectionIInv, phase # "done", phase' # "done", UNCHANGED answer
  PROVE  AnswerOK'
BY DEF SelectionIInv, AnswerOK

\* A plan adds one attempt.
LEMMA AttemptKeeps ==
  ASSUME SelectionIInv, Attempt
  PROVE  SelectionIInv'
<1>1. /\ UNCHANGED <<text, intensity, short, baseline, answer>> /\ phase = "plans"
      /\ Pass(Plans[Len(records) + 1]) /\ CandidatesOK
      /\ Len(records) < Len(Plans) /\ Len(records) \in Nat
  BY RecordsAre DEF Attempt, SelectionIInv, ProgressOK
<1>2. Len(Plans) \in {2, 5} /\ IsPlan(Plans[Len(records) + 1])
  <2>1. Len(Plans) \in {2, 5} /\ \A i \in 1..Len(Plans) : IsPlan(Plans[i])
    BY <1>1, PlansAre DEF SelectionIInv, CandidatesOK
  <2>2. Len(records) + 1 \in 1..Len(Plans)
    BY <1>1, <2>1
  <2>3. QED
    BY <2>1, <2>2
<1>3. CandidatesOK' /\ Len(records') = Len(records) + 1 /\ Plans' = Plans
  BY <1>1, <1>2, PassKeeps, PlansStay
<1>4. phase' = IF Len(records') < Len(Plans) THEN "plans" ELSE "extras"
  BY DEF Attempt
<1>5. ProgressOK'
  BY <1>1, <1>2, <1>3, <1>4 DEF ProgressOK
<1>6. AnswerOK'
  BY <1>1, <1>4, NotAnswered
<1>7. QED
  BY <1>1, <1>3, <1>5, <1>6 DEF SelectionIInv

\* The extra plans add two at most.
LEMMA ExtraKeeps ==
  ASSUME SelectionIInv, Extra
  PROVE  SelectionIInv'
<1> DEFINE k == Len(records) - Len(Plans) + 1
<1>1. /\ UNCHANGED <<text, intensity, short, baseline, answer>> /\ phase = "extras"
      /\ CandidatesOK /\ Len(records) \in Len(Plans)..(Len(Plans) + 1)
  BY DEF Extra, SelectionIInv, ProgressOK
<1>2. Len(Plans) \in {2, 5} /\ Plans' = Plans /\ \A i \in 1..2 : IsPlan(Extras[i])
  BY <1>1, PlansAre, PlansStay DEF SelectionIInv, CandidatesOK
<1>3. phase' \in {"choose", "extras"}
  BY DEF Extra
<1>4. AnswerOK'
  BY <1>1, <1>3, NotAnswered
<1>5. CandidatesOK' /\ ProgressOK'
  <2>1. CASE phase' = "choose" /\ UNCHANGED records
    <3>1. CandidatesOK'
      BY <1>1, <2>1, CandidatesStay
    <3>2. QED
      BY <1>1, <1>2, <2>1, <3>1 DEF ProgressOK
  <2>2. CASE Pass(Extras[k]) /\ phase' = IF k = 2 THEN "choose" ELSE "extras"
    <3>1. k \in 1..2
      BY <1>1, <1>2
    <3>2. IsPlan(Extras[k]) /\ Pass(Extras[k])
      BY <1>2, <2>2, <3>1
    <3>3. CandidatesOK' /\ Len(records') = Len(records) + 1
      BY <1>1, <3>2, PassKeeps
    <3>4. QED
      BY <1>1, <1>2, <2>2, <3>1, <3>3 DEF ProgressOK
  <2>3. QED
    BY <2>1, <2>2 DEF Extra
<1>6. QED
  BY <1>1, <1>4, <1>5 DEF SelectionIInv

\* The first that parses is returned, or the text repaired.
LEMMA ChooseKeeps ==
  ASSUME SelectionIInv, Choose
  PROVE  SelectionIInv'
<1>1. /\ UNCHANGED <<text, intensity, short, baseline, records>> /\ phase = "choose" /\ CandidatesOK
  BY DEF Choose, SelectionIInv
<1>2. /\ CandidatesOK' /\ Plans' = Plans
      /\ Eligible' = Eligible /\ FirstThatParses' = FirstThatParses
  BY <1>1, CandidatesStay, PlansStay
<1>3. phase' = "done"
  BY DEF Choose, Minimal, Return
<1>4. ProgressOK'
  BY <1>1, <1>2, <1>3 DEF SelectionIInv, ProgressOK
<1>5. AnswerOK'
  <2>1. CASE Eligible # {} /\ Return(FirstThatParses, "passed")
    <3>1. answer' = [choice |-> FirstThatParses, verdict |-> "passed", human |-> baseline < Threshold]
      BY <2>1 DEF Return
    <3>2. FirstThatParses \in DOMAIN records /\ KeepsClaims(records[FirstThatParses])
      BY <1>1, <2>1, FirstIsEligible
    <3>3. FirstThatParses \in Nat
      BY <1>1, <3>2, RecordsAre
    <3>4. KeepsClaims(records'[answer'.choice])
      BY <1>1, <3>1, <3>2 DEF KeepsClaims
    <3>5. answer'.choice = FirstThatParses' /\ Eligible' # {}
      BY <1>2, <2>1, <3>1
    <3>6. answer' \in [choice : Nat, verdict : {"none", "passed", "rejected"}, human : BOOLEAN]
      BY <3>1, <3>3
    <3>7. answer'.choice \in DOMAIN records'
      BY <1>1, <3>1, <3>2
    <3>8. QED
      BY <1>3, <3>4, <3>5, <3>6, <3>7 DEF AnswerOK
  <2>2. CASE \E n : Minimal(n)
    BY <2>2, RepairIsOK
  <2>3. QED
    BY <2>1, <2>2 DEF Choose
<1>6. QED
  BY <1>1, <1>2, <1>4, <1>5 DEF SelectionIInv

\* Every step preserves the inductive invariant.
LEMMA SelectionStep == SelectionIInv /\ [SelectionNext]_selectionVars => SelectionIInv'
<1> SUFFICES ASSUME SelectionIInv, [SelectionNext]_selectionVars
             PROVE  SelectionIInv'
  OBVIOUS
<1>1. CASE UNCHANGED selectionVars
  <2>1. UNCHANGED <<text, intensity, short, baseline, phase, records, answer>>
    BY <1>1 DEF selectionVars
  <2>2. CandidatesOK' /\ Plans' = Plans /\ Eligible' = Eligible /\ FirstThatParses' = FirstThatParses
    BY <2>1, CandidatesStay, PlansStay DEF SelectionIInv
  <2>3. ProgressOK'
    BY <2>1, <2>2 DEF SelectionIInv, ProgressOK
  <2>4. AnswerOK'
    BY <2>1, <2>2 DEF SelectionIInv, AnswerOK, KeepsClaims
  <2>5. QED
    BY <2>1, <2>2, <2>3, <2>4 DEF SelectionIInv
<1>2. CASE Gate
  BY <1>2, GateKeeps
<1>3. CASE Gentle
  BY <1>3, GentleKeeps
<1>4. CASE Attempt
  BY <1>4, AttemptKeeps
<1>5. CASE Extra
  BY <1>5, ExtraKeeps
<1>6. CASE Choose
  BY <1>6, ChooseKeeps
<1>7. QED
  BY <1>1, <1>2, <1>3, <1>4, <1>5, <1>6 DEF SelectionNext, Done

\* The strengthening: which attempts there are at each point of humanize, that
\* the problems in a record are those of its text, and that an answer is a
\* candidate that passed.
THEOREM SelectionInductive == SelectionSpec => []SelectionIInv
BY SelectionInitial, SelectionStep, PTL DEF SelectionSpec

\* The types follow: seven attempts at most.
LEMMA SelectionTyped == SelectionIInv => SelectionTypeOK
<1> SUFFICES ASSUME SelectionIInv
             PROVE  SelectionTypeOK
  OBVIOUS
<1>1. CandidatesOK /\ ProgressOK /\ AnswerOK
  BY DEF SelectionIInv
<1>2. Len(Plans) \in {2, 5}
  BY <1>1, PlansAre DEF SelectionIInv, CandidatesOK
<1>3. /\ Len(records) \in 0..7 /\ DOMAIN records = 1..Len(records)
  <2>1. Len(records) \in Nat /\ DOMAIN records = 1..Len(records)
    BY <1>1, RecordsAre
  <2>2. Len(records) <= Len(Plans) + 2
    BY <1>1 DEF ProgressOK
  <2> DEFINE n == Len(records)
             m == Len(Plans)
  <2>3. n \in Nat /\ m \in {2, 5} /\ n <= m + 2
    BY <1>2, <2>1, <2>2
  <2> HIDE DEF n, m
  <2>4. n \in 0..7
    BY <2>3
  <2>5. QED
    BY <2>1, <2>4 DEF n
<1>4. \A i \in 1..Len(records) : /\ records[i].candidate \in Rewritings[text]
                                 /\ records[i].level \in 5..100
                                 /\ records[i].structural \in BOOLEAN
  BY <1>1, <1>3, RecordsAre DEF Record
<1>5. answer \in [choice : 0..Len(records), verdict : {"none", "passed", "rejected"},
                  human : BOOLEAN]
  <2>1. answer.choice \in 0..Len(records)
    BY <1>1, <1>3 DEF AnswerOK, Repaired
  <2>2. QED
    BY <1>1, <2>1 DEF AnswerOK
<1>6. QED
  BY <1>1, <1>3, <1>4, <1>5 DEF SelectionTypeOK, SelectionIInv, CandidatesOK, ProgressOK

\* Every variable keeps its type, and no text is attempted more than seven times.
THEOREM SelectionTypes == SelectionSpec => []SelectionTypeOK
BY SelectionInductive, SelectionTyped, PTL

\* An answer that passed has no problem, so it says the same.
LEMMA AnswersKeepMeaning == SelectionIInv => MeaningKept
<1> SUFFICES ASSUME SelectionIInv, answer.choice # Repaired
             PROVE  /\ SaysTheSame(text, Returned.text)
                    /\ answer.human \/ Returned.wording = 0
  BY DEF MeaningKept
<1> DEFINE r == answer.choice
<1>1. /\ r \in DOMAIN records /\ KeepsClaims(records[r]) /\ CandidatesOK /\ text \in Originals
      /\ Returned \in Rewritings[text]
      /\ records[r].claims = PreCheck[text][Returned]
  BY RecordsAre DEF SelectionIInv, AnswerOK, CandidatesOK, Returned
<1>2. SemanticCheck(text, Returned.text) = {}
  BY <1>1, Measures DEF KeepsClaims
<1>3. SaysTheSame(text, Returned.text)
  BY <1>1, <1>2, Measures, PassedSaysTheSame
<1>4. answer.human \/ Returned.wording = 0
  BY <1>1, FirstIsEligible DEF SelectionIInv, AnswerOK, Returned
<1>5. QED
  BY <1>3, <1>4

\* docs/engine.md, hard guarantee 1, for every text and all rewritings of it:
\* what humanize returns has kept numbers, negations and claims, and was checked
\* for its wording too unless the original was human.
THEOREM MeaningIsKept == SelectionSpec => []MeaningKept
BY SelectionInductive, AnswersKeepMeaning, PTL

\* For every original, by PassedTwice.
LEMMA OriginalsKeptTwice == SelectionIInv => KeptTwice
<1> SUFFICES ASSUME SelectionIInv,
                    NEW c \in {e.text : e \in Rewritings[text]},
                    NEW d \in {e.text : e \in Rewritings[text]},
                    SemanticCheck(text, c) = {}, SemanticCheck(c, d) = {}
             PROVE  SemanticCheck(text, d) \subseteq {<<"sentence", k>> : k \in DOMAIN text}
  BY DEF KeptTwice
<1>1. text \in Texts /\ c \in Texts /\ d \in Texts
  BY Measures DEF SelectionIInv, CandidatesOK
<1>2. QED
  BY <1>1, PassedTwice

\* A text that is humanized twice has kept the claims of the first one: what
\* semantic_check compares of whole texts is transitive.
THEOREM MeaningKeptTwice == SelectionSpec => []KeptTwice
BY SelectionInductive, OriginalsKeptTwice, PTL

\* What is chosen is chosen among the leaders, and no better one parses.
LEMMA AnswersAreBest == SelectionIInv => BestThatParses
<1> SUFFICES ASSUME SelectionIInv, answer.choice # Repaired, ~ answer.human
             PROVE  BestThatParses
  BY DEF BestThatParses
<1> DEFINE r == answer.choice
           Ahead(i) == {j \in Eligible : Better(j, i)}
           Near == {i \in Eligible : Cardinality(Ahead(i)) < 3}
           Parses(i) == records[i].candidate.parses
<1>1. CandidatesOK /\ Eligible # {} /\ r = FirstThatParses
  BY DEF SelectionIInv, AnswerOK
<1>2. /\ Leaders \subseteq Eligible /\ Eligible \subseteq DOMAIN records
      /\ \A i \in Leaders, j \in Eligible \ Leaders : Better(i, j)
      /\ Leaders = Near
  BY <1>1, LeadersAreNear, RecordsAre
<1>3. \A i, j \in Eligible : ~ (Better(i, j) /\ Better(j, i))
  BY <1>1, <1>2, Order
<1> HIDE DEF Near
<1>4. CASE Parsing # {}
  <2>1. /\ r \in Parsing
        /\ \A j \in Parsing \ {r} : Better(r, j)
    <3>1. Parsing \in SUBSET DOMAIN records
      BY <1>2 DEF Parsing
    <3>2. r = Best(Parsing)
      BY <1>1, <1>4 DEF FirstThatParses
    <3>3. QED
      BY <1>1, <1>4, <3>1, <3>2, BestIs
  <2>2. r \in Leaders /\ Parses(r)
    BY <2>1 DEF Parsing
  <2>3. ASSUME NEW i \in Ahead(r)
        PROVE  ~ Parses(i)
    <3>1. i \in Eligible /\ Better(i, r) /\ ~ Better(r, i)
      BY <1>2, <1>3, <2>2
    <3>2. i \in Leaders
      BY <1>2, <2>2, <3>1
    <3>3. i # r
      BY <3>1
    <3>4. i \notin Parsing
      BY <2>1, <3>1, <3>3
    <3>5. QED
      BY <3>2, <3>4 DEF Parsing
  <2>4. QED
    BY <1>2, <2>2, <2>3, Zenon DEF BestThatParses, Near
<1>5. CASE Parsing = {}
  <2>1. /\ r \in Eligible
        /\ \A j \in Eligible \ {r} : Better(r, j)
    <3>1. r = Best(Eligible)
      BY <1>1, <1>5 DEF FirstThatParses
    <3>2. QED
      BY <1>1, <1>2, <3>1, BestIs
  <2>2. Ahead(r) = {}
    <3> SUFFICES ASSUME NEW j \in Eligible, Better(j, r)
                 PROVE  FALSE
      OBVIOUS
    <3>1. j = r \/ Better(r, j)
      BY <2>1
    <3>2. QED
      BY <1>3, <2>1, <3>1
  <2>3. \A i \in Near : ~ Parses(i)
    BY <1>2, <1>5 DEF Parsing
  <2>4. r \in Near
    <3>1. Cardinality(Ahead(r)) = 0
      BY <2>2, FS_EmptySet
    <3>2. QED
      BY <2>1, <3>1 DEF Near
  <2>5. QED
    BY <2>2, <2>3, <2>4, Zenon DEF BestThatParses, Near
<1>6. QED
  BY <1>4, <1>5

\* Whatever the attempts were and in whichever order: the best that parses of the
\* three best is returned, and the best of all if none of them parses.
THEOREM BestIsReturned == SelectionSpec => []BestThatParses
BY SelectionInductive, AnswersAreBest, PTL
=============================================================================
