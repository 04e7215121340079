---------------------------- MODULE LimitsProofs ----------------------------
(***************************************************************************)
(* Proofs about Limits: no window lets more requests past a counter than   *)
(* its limit, no costly request goes on uncounted, and each counter that   *)
(* gets no expiry is the work of a fault of its own, for any number of     *)
(* clients and counters, any limits, and windows of any length that are    *)
(* shorter than the expiry of their counters.                              *)
(***************************************************************************)
EXTENDS Limits, FiniteSetTheorems, TLAPS

\* A function into the naturals stays one when one of its values grows by one.
LEMMA Incremented ==
  ASSUME NEW S, NEW f \in [S -> Nat], NEW k \in S, NEW g,
         g = [f EXCEPT ![k] = f[k] + 1] \/ g = f
  PROVE  g \in [S -> Nat]
OBVIOUS

\* The next place of a sequence that is not at its end.
LEMMA NextIndex ==
  ASSUME NEW n \in Nat, NEW m \in Nat, n < m
  PROVE  n + 1 \in 1..m
OBVIOUS

\* A client whose INCR is sent again or whose EXPIRE is due has incremented a counter.
AtInv ==
  \A c \in Clients : /\ at[c] \in 0..Len(CountersOf[c])
                     /\ pc[c] \in Repeating => at[c] \in 1..Len(CountersOf[c])

\* The counters a client is at are counters.
LEMMA CounterTypes ==
  ASSUME AtInv, NEW c \in Clients
  PROVE  /\ Len(CountersOf[c]) \in Nat
         /\ at[c] < Len(CountersOf[c]) => Upcoming(c) \in Counters
         /\ pc[c] \in Repeating => Latest(c) \in Counters
<1>1. CountersOf[c] \in Seq(Counters)
  BY LimitsAssumption
<1>2. QED
  BY <1>1 DEF AtInv, Upcoming, Latest

\* An INCR, answered or not, leaves the values of counters in their types, and its
\* client at the next command.
LEMMA IncrementTypes ==
  ASSUME TypeOK, NEW c \in Clients, NEW k \in Counters,
         Increment(c, k) \/ LosesAnswer(c, k)
  PROVE  /\ count' \in [Counters -> Nat]
         /\ passed' \in [Counters -> Nat]
         /\ over' \in [Clients -> BOOLEAN]
         /\ \E l \in {"hit", "again", "expire"} : pc' = [pc EXCEPT ![c] = l]
<1> DEFINE n == count[k] + 1
<1>1. count[k] \in Nat /\ passed[k] \in Nat
  BY DEF TypeOK
<1>2. count' = [count EXCEPT ![k] = IF @ <= Limit[k] THEN n ELSE @]
  BY DEF Increment, LosesAnswer
<1>3. \/ passed' = [passed EXCEPT ![k] = @ + 1]
      \/ passed' = passed
  BY DEF Increment, LosesAnswer
<1>4. count' = [count EXCEPT ![k] = count[k] + 1] \/ count' = count
  BY <1>1, <1>2 DEF TypeOK
<1>5. passed' = [passed EXCEPT ![k] = passed[k] + 1] \/ passed' = passed
  BY <1>1, <1>3 DEF TypeOK
<1>6. over' = [over EXCEPT ![c] = @ \/ ~Allowed(n, k)] \/ over' = over
  BY DEF Increment, LosesAnswer
<1>7. (over[c] \/ ~Allowed(n, k)) \in BOOLEAN /\ over \in [Clients -> BOOLEAN]
  BY DEF TypeOK
<1>8. \E l \in {"hit", "again", "expire"} : pc' = [pc EXCEPT ![c] = l]
  BY DEF Increment, LosesAnswer, Goto
<1> HIDE DEF n
<1>9. over' \in [Clients -> BOOLEAN]
  BY <1>6, <1>7
<1>10. /\ count' \in [Counters -> Nat]
       /\ passed' \in [Counters -> Nat]
  BY <1>4, <1>5, Incremented DEF TypeOK
<1>11. QED
  BY <1>8, <1>9, <1>10

\* Every variable keeps its type.
LEMMA TypeStep ==
  ASSUME TypeOK, AtInv, [Next]_vars
  PROVE  TypeOK' /\ AtInv'
<1> USE LimitsAssumption DEF TypeOK, counters, client, Goto, Fault, Repeating
<1>1. ASSUME NEW c \in Clients, Begin(c)
      PROVE  TypeOK' /\ AtInv'
  BY <1>1 DEF Begin, AtInv
<1>2. ASSUME NEW c \in Clients, Incr(c)
      PROVE  TypeOK' /\ AtInv'
  <2>1. Upcoming(c) \in Counters
    BY <1>2, CounterTypes DEF Incr
  <2>2. Increment(c, Upcoming(c)) \/ LosesAnswer(c, Upcoming(c))
    BY <1>2 DEF Incr
  <2>3. /\ count' \in [Counters -> Nat]
        /\ passed' \in [Counters -> Nat]
        /\ over' \in [Clients -> BOOLEAN]
        /\ \E l \in {"hit", "again", "expire"} : pc' = [pc EXCEPT ![c] = l]
    BY <2>1, <2>2, IncrementTypes
  <2>4. PICK l \in {"hit", "again", "expire"} : pc' = [pc EXCEPT ![c] = l]
    BY <2>3
  <2>5. /\ at' = [at EXCEPT ![c] = @ + 1] /\ at[c] < Len(CountersOf[c])
        /\ same' = [same EXCEPT ![c] = pc'[c] \in Repeating]
        /\ UNCHANGED <<ttl, left, costly>>
    BY <1>2 DEF Incr
  <2>12. faults' \in 0..MaxFaults
    <3>1. faults' = faults \/ Fault
      BY <1>2 DEF Incr, LosesAnswer
    <3>2. MaxFaults \in Nat /\ faults \in 0..MaxFaults
      OBVIOUS
    <3>3. QED
      BY <3>1, <3>2
  <2>6. /\ at' \in [Clients -> Nat]
        /\ \A d \in Clients : d # c => at'[d] = at[d] /\ pc'[d] = pc[d]
    <3>1. at[c] + 1 \in Nat
      OBVIOUS
    <3>2. at' \in [Clients -> Nat] /\ \A d \in Clients : d # c => at'[d] = at[d]
      BY <2>5, <3>1
    <3>3. \A d \in Clients : d # c => pc'[d] = pc[d]
      BY <2>4
    <3>4. QED
      BY <3>2, <3>3
  <2>7. at'[c] \in 1..Len(CountersOf[c])
    <3>1. at[c] \in Nat /\ at'[c] = at[c] + 1
      BY <2>5
    <3>2. Len(CountersOf[c]) \in Nat
      BY CounterTypes
    <3>3. QED
      BY <2>5, <3>1, <3>2, NextIndex
  <2>8. AtInv'
    <3> SUFFICES ASSUME NEW d \in Clients
                 PROVE  /\ at'[d] \in 0..Len(CountersOf[d])
                        /\ pc'[d] \in Repeating => at'[d] \in 1..Len(CountersOf[d])
      BY DEF AtInv
    <3>1. CASE d = c
      BY <3>1, <2>7, CounterTypes
    <3>2. CASE d # c
      BY <3>2, <2>6 DEF AtInv
    <3>3. QED
      BY <3>1, <3>2
  <2>9. pc' \in [Clients -> {"idle", "hit", "again", "expire", "go", "limited", "unavailable"}]
    BY <2>4
  <2>10. same' \in [Clients -> BOOLEAN]
    BY <2>5
  <2>11. QED
    BY <2>3, <2>5, <2>6, <2>8, <2>9, <2>10, <2>12
<1>3. ASSUME NEW c \in Clients, IncrAgain(c)
      PROVE  TypeOK' /\ AtInv'
  <2>1. Latest(c) \in Counters
    BY <1>3, CounterTypes DEF IncrAgain
  <2>2. /\ count' \in [Counters -> Nat]
        /\ passed' \in [Counters -> Nat]
        /\ over' \in [Clients -> BOOLEAN]
        /\ \E l \in {"hit", "again", "expire"} : pc' = [pc EXCEPT ![c] = l]
    <3>1. CASE same[c]
      <4>1. Increment(c, Latest(c))
        BY <1>3, <3>1 DEF IncrAgain
      <4>2. QED
        BY <2>1, <4>1, IncrementTypes
    <3>2. CASE ~same[c]
      BY <1>3, <3>2 DEF IncrAgain
    <3>3. QED
      BY <3>1, <3>2
  <2>3. PICK l \in {"hit", "again", "expire"} : pc' = [pc EXCEPT ![c] = l]
    BY <2>2
  <2>4. /\ pc[c] = "again"
        /\ same' = [same EXCEPT ![c] = @ /\ pc'[c] \in Repeating]
        /\ UNCHANGED <<ttl, left, at, costly, faults>>
    BY <1>3 DEF IncrAgain
  <2>5. pc' \in [Clients -> {"idle", "hit", "again", "expire", "go", "limited", "unavailable"}]
    BY <2>3
  <2>6. same' \in [Clients -> BOOLEAN]
    BY <2>4, Zenon
  <2>7. AtInv'
    BY <2>3, <2>4 DEF AtInv
  <2>8. QED
    BY <2>2, <2>4, <2>5, <2>6, <2>7
<1>4. ASSUME NEW c \in Clients, Expire(c)
      PROVE  TypeOK' /\ AtInv'
  <2>1. Latest(c) \in Counters /\ TtlOf(Latest(c)) \in Nat
    BY <1>4, CounterTypes DEF Expire, TtlOf
  <2>2. ttl' \in [Counters -> Nat]
    BY <1>4, <2>1 DEF Expire
  <2>3. QED
    BY <1>4, <2>2 DEF Expire, AtInv
<1>5. ASSUME NEW c \in Clients, Decide(c) \/ RedisFails(c)
      PROVE  TypeOK' /\ AtInv'
  <2>1. /\ pc' \in {[pc EXCEPT ![c] = l] : l \in {"go", "limited", "unavailable"}}
        /\ UNCHANGED <<counters, left, at, costly, over>>
        /\ same' \in {same, [same EXCEPT ![c] = FALSE]}
        /\ faults' \in 0..MaxFaults
    BY <1>5 DEF Decide, RedisFails, WithoutLimiter
  <2>2. PICK l \in {"go", "limited", "unavailable"} : pc' = [pc EXCEPT ![c] = l]
    BY <2>1
  <2>3. QED
    BY <2>1, <2>2 DEF AtInv
<1>6. ASSUME NEW c \in Clients, Abandon(c)
      PROVE  TypeOK' /\ AtInv'
  <2>1. Len(CountersOf[c]) \in Nat
    BY CounterTypes
  <2>2. TypeOK'
    BY <1>6 DEF Abandon
  <2>3. /\ pc' = [pc EXCEPT ![c] = "idle"]
        /\ at' = [at EXCEPT ![c] = 0]
    BY <1>6 DEF Abandon
  <2>4. ASSUME NEW d \in Clients
        PROVE  /\ at'[d] \in 0..Len(CountersOf[d])
               /\ pc'[d] \in Repeating => at'[d] \in 1..Len(CountersOf[d])
    <3>1. CASE d = c
      BY <2>1, <2>3, <3>1
    <3>2. CASE d # c
      BY <2>3, <3>2 DEF AtInv
    <3>3. QED
      BY <3>1, <3>2
  <2>5. QED
    BY <2>2, <2>4 DEF AtInv
<1>7. CASE Tick
  <2>1. /\ left' \in [Windows -> Nat] /\ \A w \in Windows : left'[w] \in 1..Length[w]
    BY <1>7 DEF Tick, Ends
  <2>2. count' \in [Counters -> Nat] /\ passed' \in [Counters -> Nat]
    BY <1>7 DEF Tick
  <2>3. ttl' \in [Counters -> Nat]
    BY <1>7 DEF Tick
  <2>4. same' \in [Clients -> BOOLEAN]
    BY <1>7, Zenon DEF Tick
  <2>5. QED
    BY <1>7, <2>1, <2>2, <2>3, <2>4 DEF Tick, AtInv
<1>8. CASE UNCHANGED vars
  BY <1>8 DEF vars, AtInv
<1>9. QED
  BY <1>1, <1>2, <1>3, <1>4, <1>5, <1>6, <1>7, <1>8 DEF Next

\* The initial state has the right types.
LEMMA InitTypes == Init => TypeOK /\ AtInv
<1> SUFFICES ASSUME Init
             PROVE  TypeOK /\ AtInv
  OBVIOUS
<1>1. TypeOK
  BY LimitsAssumption DEF Init, TypeOK
<1>2. ASSUME NEW c \in Clients
      PROVE  at[c] \in 0..Len(CountersOf[c]) /\ pc[c] \notin Repeating
  <2>1. Len(CountersOf[c]) \in Nat
    BY LimitsAssumption
  <2>2. QED
    BY <2>1 DEF Init, Repeating
<1>3. QED
  BY <1>1, <1>2 DEF AtInv

\* The variables of the limiter keep their types: no client is ever beyond its last
\* counter, and no window is longer than it should be.
THEOREM TypeCorrect == Spec => []TypeOK
<1>1. TypeOK /\ AtInv /\ [Next]_vars => (TypeOK /\ AtInv)'
  BY TypeStep
<1>2. QED
  BY <1>1, InitTypes, PTL DEF Spec
-----------------------------------------------------------------------------
\* A counter outlives its window, and what got past it is no more than it counts.
Outlives(k) == ttl[k] = 0 \/ ttl[k] > left[WindowOf[k]]

Counted(k) == passed[k] <= count[k] /\ passed[k] <= Limit[k]

CountInv == \A k \in Counters : Outlives(k) /\ Counted(k)

\* An INCR, answered or not, counts at least what it lets pass.
LEMMA IncrementCounts ==
  ASSUME TypeOK, CountInv, NEW c \in Clients, NEW k \in Counters,
         Increment(c, k) \/ LosesAnswer(c, k), UNCHANGED <<ttl, left>>
  PROVE  CountInv'
<1> USE LimitsAssumption DEF TypeOK, CountInv, Outlives, Counted
<1>1. /\ count' = [count EXCEPT ![k] = IF @ <= Limit[k] THEN count[k] + 1 ELSE @]
      /\ \/ passed' = passed
         \/ count[k] + 1 <= Limit[k] /\ passed' = [passed EXCEPT ![k] = @ + 1]
  BY DEF Increment, LosesAnswer, Allowed
<1>2. count[k] \in Nat /\ passed[k] \in Nat /\ Limit[k] \in Nat /\ Counted(k)
  OBVIOUS
<1>3. /\ count'[k] >= count[k] /\ passed'[k] <= count'[k] /\ passed'[k] <= Limit[k]
      /\ \A m \in Counters \ {k} : count'[m] = count[m] /\ passed'[m] = passed[m]
  BY <1>1, <1>2
<1>4. QED
  BY <1>1, <1>3

\* Every step keeps what is known of a counter: it outlives its window, and it counts
\* all that got past it.
LEMMA CountStep ==
  ASSUME TypeOK, AtInv, CountInv, [Next]_vars
  PROVE  CountInv'
<1> USE LimitsAssumption DEF TypeOK, counters, client, CountInv, Outlives, Counted
<1>1. ASSUME NEW c \in Clients, Begin(c) \/ Decide(c) \/ RedisFails(c) \/ Abandon(c)
      PROVE  CountInv'
  BY <1>1 DEF Begin, Decide, RedisFails, Abandon
<1>2. ASSUME NEW c \in Clients, Incr(c) \/ IncrAgain(c)
      PROVE  CountInv'
  <2>1. CASE Incr(c)
    <3>1. /\ Upcoming(c) \in Counters
          /\ Increment(c, Upcoming(c)) \/ LosesAnswer(c, Upcoming(c))
          /\ UNCHANGED <<ttl, left>>
      BY <2>1, CounterTypes DEF Incr
    <3>2. QED
      BY <3>1, IncrementCounts
  <2>2. CASE IncrAgain(c) /\ same[c]
    <3>1. /\ Latest(c) \in Counters
          /\ Increment(c, Latest(c))
          /\ UNCHANGED <<ttl, left>>
      BY <2>2, CounterTypes DEF IncrAgain, Repeating
    <3>2. QED
      BY <3>1, IncrementCounts
  <2>3. CASE IncrAgain(c) /\ ~same[c]
    BY <2>3 DEF IncrAgain
  <2>4. QED
    BY <1>2, <2>1, <2>2, <2>3
<1>3. ASSUME NEW c \in Clients, Expire(c)
      PROVE  CountInv'
  <2> DEFINE k == Latest(c)
  <2>1. k \in Counters
    BY <1>3, CounterTypes DEF Expire, Repeating
  <2>2. /\ ttl' = ttl \/ ttl' = [ttl EXCEPT ![k] = Ttl[WindowOf[k]]]
        /\ UNCHANGED <<count, passed, left>>
    BY <1>3 DEF Expire, TtlOf
  <2>3. WindowOf[k] \in Windows /\ Ttl[WindowOf[k]] > left[WindowOf[k]]
    BY <2>1
  <2> HIDE DEF k
  <2>4. QED
    BY <2>1, <2>2, <2>3
<1>4. CASE Tick
  <2> SUFFICES ASSUME NEW k \in Counters
               PROVE  Outlives(k)' /\ Counted(k)'
    OBVIOUS
  <2> DEFINE w == WindowOf[k]
  <2>1. w \in Windows /\ left[w] \in 1..Length[w] /\ Length[w] \in Nat
    OBVIOUS
  <2>2. /\ left'[w] = IF Ends(w) THEN Length[w] ELSE left[w] - 1
        /\ count'[k] = IF Gone(k) THEN 0 ELSE count[k]
        /\ ttl'[k] = IF Gone(k) \/ ttl[k] = 0 THEN 0 ELSE ttl[k] - 1
        /\ passed'[k] = IF Ends(w) THEN 0 ELSE passed[k]
    BY <1>4, <2>1 DEF Tick
  <2>3. Gone(k) => Ends(w)
    <3>1. ttl[k] \in Nat /\ (ttl[k] = 0 \/ ttl[k] > left[w])
      OBVIOUS
    <3>2. ttl[k] # 1
      BY <2>1, <3>1
    <3>3. QED
      BY <3>2 DEF Gone
  <2>4. Ends(w) <=> left[w] = 1
    BY DEF Ends
  <2>5. /\ ttl[k] \in Nat /\ (ttl[k] = 0 \/ ttl[k] > left[w])
        /\ passed[k] <= count[k] /\ passed[k] <= Limit[k] /\ Limit[k] \in Nat
    OBVIOUS
  <2> HIDE DEF w
  <2>6. CASE Ends(w)
    BY <2>1, <2>2, <2>5, <2>6 DEF Gone, w
  <2>7. CASE ~Ends(w)
    BY <2>1, <2>2, <2>3, <2>4, <2>5, <2>7 DEF w
  <2>8. QED
    BY <2>6, <2>7
<1>5. CASE UNCHANGED vars
  BY <1>5 DEF vars
<1>6. QED
  BY <1>1, <1>2, <1>3, <1>4, <1>5 DEF Next

\* In each window at most Limit requests get past a counter.
THEOREM LimitsHold == Spec => []WindowLimit
<1> DEFINE Inv == TypeOK /\ AtInv /\ CountInv
<1>1. Init => Inv
  BY InitTypes, LimitsAssumption DEF Init, CountInv, Outlives, Counted
<1>2. Inv /\ [Next]_vars => Inv'
  BY TypeStep, CountStep
<1>3. Inv => WindowLimit
  BY DEF CountInv, Counted, WindowLimit
<1>4. QED
  BY <1>1, <1>2, <1>3, PTL DEF Spec
-----------------------------------------------------------------------------
\* No step lets a costly request go on that was not counted.
LEMMA CostlyStep ==
  ASSUME TypeOK, CostlyWasCounted, [Next]_vars
  PROVE  CostlyWasCounted'
<1> USE DEF TypeOK, CostlyWasCounted, counters, client, Goto
<1>1. ASSUME NEW c \in Clients, NEW k, Increment(c, k) \/ LosesAnswer(c, k)
      PROVE  /\ pc'[c] # "go"
             /\ \A d \in Clients \ {c} : pc'[d] = pc[d] /\ over'[d] = over[d]
  BY <1>1 DEF Increment, LosesAnswer
<1>2. ASSUME NEW c \in Clients, Incr(c)
      PROVE  CostlyWasCounted'
  <2>1. Increment(c, Upcoming(c)) \/ LosesAnswer(c, Upcoming(c))
    BY <1>2 DEF Incr
  <2>2. \A d \in Clients \ {c} : at'[d] = at[d] /\ costly'[d] = costly[d]
    BY <1>2 DEF Incr
  <2>3. QED
    BY <1>1, <2>1, <2>2
<1>3. ASSUME NEW c \in Clients, IncrAgain(c)
      PROVE  CostlyWasCounted'
  <2>1. /\ pc'[c] # "go"
        /\ \A d \in Clients \ {c} : pc'[d] = pc[d] /\ over'[d] = over[d]
    <3>1. CASE same[c]
      BY <1>1, <1>3, <3>1 DEF IncrAgain
    <3>2. CASE ~same[c]
      BY <1>3, <3>2 DEF IncrAgain
    <3>3. QED
      BY <3>1, <3>2
  <2>2. at' = at /\ costly' = costly
    BY <1>3 DEF IncrAgain
  <2>3. QED
    BY <2>1, <2>2
<1>4. ASSUME NEW c \in Clients, Begin(c) \/ Expire(c) \/ Decide(c)
      PROVE  CostlyWasCounted'
  BY <1>4 DEF Begin, Expire, Decide
<1>5. ASSUME NEW c \in Clients, RedisFails(c) \/ Abandon(c)
      PROVE  CostlyWasCounted'
  BY <1>5 DEF RedisFails, Abandon, WithoutLimiter
<1>6. CASE Tick
  BY <1>6 DEF Tick
<1>7. CASE UNCHANGED vars
  BY <1>7 DEF vars
<1>8. QED
  BY <1>2, <1>3, <1>4, <1>5, <1>6, <1>7 DEF Next

\* A costly request goes on only after every counter was asked and allowed it,
\* even when Redis fails.
THEOREM CostlyCounted == Spec => []CostlyWasCounted
<1>1. Init => CostlyWasCounted
  BY DEF Init, CostlyWasCounted
<1>2. TypeOK /\ CostlyWasCounted /\ [Next]_vars => CostlyWasCounted'
  BY CostlyStep
<1>3. QED
  BY <1>1, <1>2, TypeCorrect, PTL DEF Spec
-----------------------------------------------------------------------------
\* What c is about to expire stays the same.
Waits(c) == pc'[c] = pc[c] /\ same'[c] = same[c] /\ at'[c] = at[c]

\* A counter that keeps its value and its expiry is forgotten only by whoever was
\* about to give it one.
LEMMA Remembered ==
  ASSUME NEW k \in Counters, Forgotten(k)', count[k] > 0, ttl[k] = 0,
         \A c \in Clients : Expiring(c, k) => Waits(c)
  PROVE  Forgotten(k)
<1> SUFFICES ASSUME NEW c \in Clients, Expiring(c, k)
             PROVE  FALSE
  BY DEF Forgotten
<1>1. pc'[c] = "expire" /\ same'[c] /\ Latest(c)' = k
  BY DEF Expiring, Waits, Latest
<1>2. QED
  BY <1>1 DEF Forgotten, Expiring

\* A first INCR that is answered is followed by an EXPIRE, and a later one changes
\* nothing about who gives the counter its expiry.
LEMMA IncrementRemembers ==
  ASSUME TypeOK, NEW c \in Clients, NEW m \in Counters, Increment(c, m),
         pc[c] # "expire", Latest(c)' = m, ttl' = ttl,
         pc'[c] = "expire" => same'[c],
         \A d \in Clients \ {c} : same'[d] = same[d] /\ at'[d] = at[d],
         NEW k \in Counters, Forgotten(k)'
  PROVE  Forgotten(k)
<1> USE DEF TypeOK, Goto
<1>1. /\ count' = [count EXCEPT ![m] = IF @ <= Limit[m] THEN count[m] + 1 ELSE @]
      /\ pc' = [pc EXCEPT ![c] = IF count[m] + 1 = 1 THEN "expire" ELSE "hit"]
  BY DEF Increment, First
<1>2. \A d \in Clients : Expiring(d, k) => Waits(d)
  BY <1>1 DEF Expiring, Waits
<1>3. ttl[k] = 0 /\ count'[k] > 0
  BY DEF Forgotten
<1>4. CASE count[k] > 0
  BY <1>2, <1>3, <1>4, Remembered
<1>5. CASE ~(count[k] > 0)
  <2>1. k = m /\ count[m] = 0
    BY <1>1, <1>3, <1>5
  <2>2. pc'[c] = "expire" /\ same'[c]
    BY <1>1, <2>1
  <2>3. QED
    BY <2>1, <2>2 DEF Forgotten, Expiring
<1>6. QED
  BY <1>4, <1>5

\* A step forgets at most one counter, and that by a fault.
LEMMA OneForgotten ==
  ASSUME TypeOK, AtInv, [Next]_vars
  PROVE  \/ /\ \A k \in Counters : Forgotten(k)' => Forgotten(k)
            /\ faults' \in {faults, faults + 1}
         \/ /\ \E m \in Counters :
                 \A k \in Counters \ {m} : Forgotten(k)' => Forgotten(k)
            /\ faults' = faults + 1
<1> DEFINE None == \A k \in Counters : Forgotten(k)' => Forgotten(k)
           AllBut(m) == \A k \in Counters \ {m} : Forgotten(k)' => Forgotten(k)
<1> USE LimitsAssumption DEF TypeOK, counters, client, Goto
<1>1. ASSUME NEW c \in Clients, Begin(c) \/ Decide(c)
      PROVE  None /\ faults' = faults
  <2>1. /\ count' = count /\ ttl' = ttl /\ faults' = faults
        /\ \A d \in Clients : pc[d] = "expire" => Waits(d)
    BY <1>1 DEF Begin, Decide, Waits
  <2>2. QED
    BY <2>1, Remembered DEF Forgotten, Expiring
<1>2. ASSUME NEW c \in Clients, Incr(c)
      PROVE  \/ None /\ faults' = faults
             \/ AllBut(Upcoming(c)) /\ faults' = faults + 1
  <2> DEFINE m == Upcoming(c)
  <2>1. m \in Counters /\ at[c] \in Nat /\ pc[c] = "hit"
    BY <1>2, CounterTypes DEF Incr
  <2>2. /\ at' = [at EXCEPT ![c] = @ + 1]
        /\ same' = [same EXCEPT ![c] = pc'[c] \in Repeating]
        /\ ttl' = ttl
    BY <1>2 DEF Incr
  <2>3. Latest(c)' = m
    BY <2>1, <2>2 DEF Latest, Upcoming
  <2> HIDE DEF m
  <2>4. CASE Increment(c, m) /\ faults' = faults
    <3>1. /\ pc'[c] = "expire" => same'[c]
          /\ \A d \in Clients \ {c} : same'[d] = same[d] /\ at'[d] = at[d]
      BY <2>2 DEF Repeating
    <3>2. pc[c] # "expire"
      BY <2>1
    <3>3. None
      BY <2>1, <2>2, <2>3, <2>4, <3>1, <3>2, IncrementRemembers
    <3>4. QED
      BY <2>4, <3>3
  <2>5. CASE LosesAnswer(c, m)
    <3>1. /\ count' = [count EXCEPT ![m] = IF @ <= Limit[m] THEN @ + 1 ELSE @]
          /\ pc' = [pc EXCEPT ![c] = "again"]
          /\ faults' = faults + 1
      BY <2>5 DEF LosesAnswer, Fault
    <3>2. \A d \in Clients : pc[d] = "expire" => Waits(d)
      BY <2>1, <2>2, <3>1 DEF Waits
    <3>3. \A k \in Counters \ {m} : count'[k] = count[k]
      BY <2>1, <3>1
    <3>4. AllBut(m)
      BY <2>2, <3>2, <3>3, Remembered DEF Forgotten, Expiring
    <3>5. QED
      BY <3>1, <3>4 DEF m
  <2>6. QED
    BY <1>2, <2>4, <2>5 DEF Incr, m
<1>3. ASSUME NEW c \in Clients, IncrAgain(c)
      PROVE  None /\ faults' = faults
  <2> DEFINE m == Latest(c)
  <2>1. m \in Counters /\ pc[c] = "again"
    BY <1>3, CounterTypes DEF IncrAgain, Repeating
  <2>2. /\ at' = at /\ ttl' = ttl /\ faults' = faults
        /\ same' = [same EXCEPT ![c] = @ /\ pc'[c] \in Repeating]
    BY <1>3 DEF IncrAgain
  <2>3. Latest(c)' = m
    BY <2>2 DEF Latest
  <2> HIDE DEF m
  <2>4. CASE same[c]
    <3>1. Increment(c, m)
      BY <1>3, <2>4 DEF IncrAgain, m
    <3>2. /\ pc'[c] = "expire" => same'[c]
          /\ \A d \in Clients \ {c} : same'[d] = same[d] /\ at'[d] = at[d]
      BY <2>2, <2>4 DEF Repeating
    <3>3. pc[c] # "expire"
      BY <2>1
    <3>4. None
      BY <2>1, <2>2, <2>3, <3>1, <3>2, <3>3, IncrementRemembers
    <3>5. QED
      BY <2>2, <3>4
  <2>5. CASE ~same[c]
    <3>1. count' = count /\ pc' = [pc EXCEPT ![c] = "hit"]
      BY <1>3, <2>5 DEF IncrAgain
    <3>2. \A d \in Clients : pc[d] = "expire" => Waits(d)
      BY <2>1, <2>2, <3>1 DEF Waits
    <3>3. QED
      BY <2>2, <3>1, <3>2, Remembered DEF Forgotten, Expiring
  <2>6. QED
    BY <2>4, <2>5
<1>4. ASSUME NEW c \in Clients, Expire(c)
      PROVE  None /\ faults' = faults
  <2> DEFINE m == Latest(c)
  <2>1. m \in Counters /\ TtlOf(m) > 0
    <3>1. m \in Counters
      BY <1>4, CounterTypes DEF Expire, Repeating
    <3>2. WindowOf[m] \in Windows
      BY <3>1
    <3>3. QED
      BY <3>1, <3>2 DEF TtlOf
  <2>2. /\ ttl' = IF same[c] THEN [ttl EXCEPT ![m] = TtlOf(m)] ELSE ttl
        /\ \A d \in Clients \ {c} : Waits(d)
        /\ count' = count /\ faults' = faults
    BY <1>4 DEF Expire, Waits
  <2> SUFFICES ASSUME NEW k \in Counters, Forgotten(k)'
               PROVE  Forgotten(k)
    BY <2>2
  <2>3. ~Expiring(c, k) /\ ttl[k] = 0
    <3>1. ttl'[k] = 0
      BY DEF Forgotten
    <3>2. QED
      BY <2>1, <2>2, <3>1 DEF Expiring
  <2>4. count[k] > 0
    BY <2>2 DEF Forgotten
  <2>5. \A d \in Clients : Expiring(d, k) => Waits(d)
    BY <2>2, <2>3
  <2>6. QED
    BY <2>3, <2>4, <2>5, Remembered
<1>5. ASSUME NEW c \in Clients, RedisFails(c) \/ Abandon(c)
      PROVE  /\ faults' = faults + 1
             /\ None \/ (Latest(c) \in Counters /\ AllBut(Latest(c)))
  <2>1. /\ count' = count /\ ttl' = ttl /\ faults' = faults + 1
        /\ \A d \in Clients \ {c} : Waits(d)
    BY <1>5 DEF RedisFails, Abandon, Fault, Waits
  <2>2. CASE pc[c] = "expire"
    <3>1. Latest(c) \in Counters
      BY <2>2, CounterTypes DEF Repeating
    <3>2. AllBut(Latest(c))
      BY <2>1, Remembered DEF Forgotten, Expiring
    <3>3. QED
      BY <2>1, <3>1, <3>2
  <2>3. CASE pc[c] # "expire"
    BY <2>1, <2>3, Remembered DEF Forgotten, Expiring
  <2>4. QED
    BY <2>2, <2>3
<1>6. ASSUME Tick
      PROVE  None /\ faults' = faults
  <2> SUFFICES ASSUME NEW k \in Counters, Forgotten(k)'
               PROVE  Forgotten(k)
    BY <1>6 DEF Tick
  <2>1. count'[k] > 0 /\ ttl'[k] = 0
    BY DEF Forgotten
  <2>2. /\ ~Gone(k) /\ count[k] > 0
        /\ ttl'[k] = IF ttl[k] = 0 THEN 0 ELSE ttl[k] - 1
    BY <1>6, <2>1 DEF Tick
  <2>3. ttl[k] = 0
    BY <2>1, <2>2 DEF Gone
  <2>4. \A d \in Clients : Expiring(d, k) => Waits(d)
    BY <1>6, <2>2 DEF Tick, Gone, Expiring, Waits
  <2>5. QED
    BY <2>2, <2>3, <2>4, Remembered
<1>7. ASSUME UNCHANGED vars
      PROVE  None /\ faults' = faults
  BY <1>7 DEF vars, Forgotten, Expiring, Latest
<1>8. \A c \in Clients : pc[c] = "hit" /\ at[c] < Len(CountersOf[c]) => Upcoming(c) \in Counters
  BY CounterTypes
<1>9. ASSUME NEW c \in Clients, Incr(c)
      PROVE  Upcoming(c) \in Counters
  BY <1>8, <1>9 DEF Incr
<1> HIDE DEF None, AllBut
<1>10. \/ None /\ faults' \in {faults, faults + 1}
       \/ faults' = faults + 1 /\ \E m \in Counters : AllBut(m)
  BY <1>1, <1>2, <1>3, <1>4, <1>5, <1>6, <1>7, <1>9 DEF Next
<1>11. QED
  BY <1>10 DEF None, AllBut

\* So a step adds no more forgotten counters than faults.
LEMMA ExpiryStep ==
  ASSUME TypeOK, AtInv, CountersExpire, [Next]_vars
  PROVE  CountersExpire'
<1> DEFINE F == {k \in Counters : Forgotten(k)}
           G == {k \in Counters : Forgotten(k)'}
<1>1. IsFiniteSet(F) /\ Cardinality(F) \in Nat /\ Cardinality(F) <= faults
  BY FS_CardinalityType DEF CountersExpire
<1>2. faults \in Nat
  BY LimitsAssumption DEF TypeOK
<1>3. CASE G \subseteq F /\ faults' \in {faults, faults + 1}
  <2>1. IsFiniteSet(G) /\ Cardinality(G) <= Cardinality(F) /\ Cardinality(G) \in Nat
    BY <1>1, <1>3, FS_Subset, FS_CardinalityType
  <2>2. Cardinality(G) <= faults'
    BY <1>1, <1>2, <1>3, <2>1
  <2>3. QED
    BY <2>1, <2>2 DEF CountersExpire
<1>4. ASSUME NEW m \in Counters, G \subseteq F \cup {m}, faults' = faults + 1
      PROVE  CountersExpire'
  <2>1. /\ IsFiniteSet(F \cup {m})
        /\ Cardinality(F \cup {m}) \in {Cardinality(F), Cardinality(F) + 1}
    BY <1>1, FS_AddElement
  <2>2. /\ IsFiniteSet(G) /\ Cardinality(G) <= Cardinality(F \cup {m})
        /\ Cardinality(G) \in Nat
    BY <1>4, <2>1, FS_Subset, FS_CardinalityType
  <2>3. Cardinality(G) <= faults'
    BY <1>1, <1>2, <1>4, <2>1, <2>2
  <2>4. QED
    BY <2>2, <2>3 DEF CountersExpire
<1>5. \/ G \subseteq F /\ faults' \in {faults, faults + 1}
      \/ faults' = faults + 1 /\ \E m \in Counters : G \subseteq F \cup {m}
  BY OneForgotten
<1>6. QED
  BY <1>3, <1>4, <1>5

\* At most as many counters of the windows that last are without an expiry, and will
\* never get one, as there were first INCRs sent again and requests that ended
\* before their EXPIRE.
THEOREM ForgottenOnlyByFaults == Spec => []CountersExpire
<1>1. Init => CountersExpire
  <2> SUFFICES ASSUME Init
               PROVE  CountersExpire
    OBVIOUS
  <2>1. {k \in Counters : Forgotten(k)} = {}
    BY DEF Init, Forgotten
  <2>2. QED
    BY <2>1, FS_EmptySet DEF Init, CountersExpire
<1>2. TypeOK /\ AtInv /\ [Next]_vars => (TypeOK /\ AtInv)'
  BY TypeStep
<1>3. TypeOK /\ AtInv /\ CountersExpire /\ [Next]_vars => CountersExpire'
  BY ExpiryStep
<1>4. QED
  BY <1>1, <1>2, <1>3, InitTypes, PTL DEF Spec
=============================================================================
