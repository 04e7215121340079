-------------------------- MODULE JobPipelineProofs --------------------------
(***************************************************************************)
(* Proofs about JobPipeline and about the client of Stream beside it, for  *)
(* every set of jobs and every number of tasks and of faults.  Whatever    *)
(* fails, no accepted job is lost, and unless recovery is cut short or a   *)
(* push sent twice a job is in the hands of one task and returned credits  *)
(* pay for no result.  Under the kinds of faults that each theorem names,  *)
(* the books balance, and the whole implements JobPromise.                 *)
(***************************************************************************)
EXTENDS Stream, SequenceTheorems, FiniteSetTheorems, WellFoundedInduction, TLAPS

(* The inductive invariant: TypeOK, NoJobLost and what they rest on. *)

\* A task is idle exactly when it has no job, and none runs while the worker
\* is down, dead or recovering.
TasksInv ==
  /\ \A t \in Tasks : tpc[t] = "idle" <=> tjob[t] = NoJob
  /\ worker \in {"down", "dead", "recover", "discard"} => \A t \in Tasks : tpc[t] = "idle"

\* Only an accepted job is in a list or in the hands of a task: the requests
\* of the others are the only ones to insert their rows.
Known(j) ==
  \/ j \in Elems(queue) \cup Elems(processing) \cup Elems(orphans)
  \/ \E t \in Tasks : tjob[t] = j

KnownAccepted == \A j \in Jobs : Known(j) => Accepted(j)

\* A copy of a cached response is never open.
CopiedInv == \A j \in Jobs : submit[j] = "copied" => row[j] \in {"completed", "none"}

\* From where a task has written down how its job ended until it is idle.
Recorded == {"settle", "publish", "cache", "release", "notify", "lrem",
          "last_refund", "last_hash"}

RecordedInv ==
  \A t \in Tasks : tpc[t] \in Recorded => ~Open(tjob[t]) \/ tjob[t] \in unrecorded

\* During recovery every job of processing is in the queue or still to come.
RecoveryInv ==
  /\ worker = "recover" => /\ orphans # <<>>
                           /\ Elems(processing) \subseteq Elems(queue) \cup Elems(orphans)
  /\ worker = "discard" => Elems(processing) \subseteq Elems(queue)

\* Unless recovery was cut short or a push was sent twice, a job is in one place
\* only: in the queue once, or in processing once, where one task may work on
\* it, or among the orphans once, which recovery moves into the queue.
Distinct(s) == \A m, n \in DOMAIN s : s[m] = s[n] => m = n

UniqueInv ==
  ~doubled =>
    /\ Distinct(queue)
    /\ \A t \in Tasks : tjob[t] \notin Elems(queue)
    /\ ClaimedOnce
    /\ worker = "recover" => Distinct(orphans) /\ Elems(orphans) \cap Elems(queue) = {}
    /\ worker \notin {"recover", "discard"} =>
         Distinct(processing) /\ Elems(processing) \cap Elems(queue) = {}

\* A request has a usage record from its charge on, which nothing removes.
ChargedInv ==
  \A j \in Jobs :
    /\ submit[j] \in {"new", "hit", "miss", "inserted", "copied"} => usage[j] = "none"
    /\ submit[j] \in {"charged", "hashed", "accepted"} => usage[j] # "none"

\* Where a task may still produce a result, and where it gives credits back.
BeforeResult == {"acquire", "start", "mark", "work"}
BeforeRefund == {"fail_refund", "last_refund"}

\* Credits go back for a job whose row says failed, or was deleted, and while a
\* task has the job nobody but that task gives its row another status.
PaidInv ==
  ~doubled =>
    /\ \A j \in Jobs : usage[j] \in {"refunded", "waived"} => row[j] \in {"failed", "none"}
    /\ \A t \in Tasks :
         /\ tpc[t] \in BeforeResult => row[tjob[t]] \in {"queued", "processing", "none"}
         /\ tpc[t] \in BeforeRefund => row[tjob[t]] \in {"failed", "none"}
         /\ tpc[t] = "settle" => row[tjob[t]] \in {"completed", "none"}

IInv ==
  /\ TypeOK
  /\ TasksInv
  /\ KnownAccepted
  /\ CopiedInv
  /\ RecordedInv
  /\ RecoveryInv
  /\ NoJobLost
  /\ UniqueInv
  /\ ChargedInv
  /\ PaidInv
-----------------------------------------------------------------------------
(* Lemmas about lists. *)

\* The elements of a list with one more.
LEMMA ElemsAppend ==
  ASSUME NEW S, NEW s \in Seq(S), NEW x \in S
  PROVE  Append(s, x) \in Seq(S) /\ Elems(Append(s, x)) = Elems(s) \cup {x}
<1>1. /\ Append(s, x) \in Seq(S)
      /\ DOMAIN Append(s, x) = 1..(Len(s) + 1)
      /\ \A i \in 1..Len(s) : Append(s, x)[i] = s[i]
      /\ Append(s, x)[Len(s) + 1] = x
  OBVIOUS
<1>2. DOMAIN s = 1..Len(s) /\ Len(s) \in Nat
  OBVIOUS
<1>3. Elems(Append(s, x)) \subseteq Elems(s) \cup {x}
  BY <1>1, <1>2 DEF Elems
<1>4. Elems(s) \subseteq Elems(Append(s, x))
  BY <1>1, <1>2 DEF Elems
<1>5. x \in Elems(Append(s, x))
  BY <1>1, <1>2 DEF Elems
<1>6. QED
  BY <1>1, <1>3, <1>4, <1>5

\* Where the elements of a concatenation are, in terms of the library's lemmas.
LEMMA ConcatAt ==
  ASSUME NEW S, NEW s \in Seq(S), NEW u \in Seq(S)
  PROVE  /\ s \o u \in Seq(S)
         /\ Len(s) \in Nat /\ Len(u) \in Nat
         /\ DOMAIN s = 1..Len(s)
         /\ DOMAIN u = 1..Len(u)
         /\ DOMAIN (s \o u) = 1..(Len(s) + Len(u))
         /\ \A i \in 1..(Len(s) + Len(u)) :
              (s \o u)[i] = IF i <= Len(s) THEN s[i] ELSE u[i - Len(s)]
BY ConcatProperties, LenProperties

\* And those of a part of a list.
LEMMA SubSeqAt ==
  ASSUME NEW S, NEW s \in Seq(S), NEW m \in 1..Len(s) + 1, NEW n \in 0..Len(s)
  PROVE  /\ SubSeq(s, m, n) \in Seq(S)
         /\ Len(s) \in Nat
         /\ DOMAIN SubSeq(s, m, n) = 1..(n - m + 1)
         /\ m <= n + 1 => Len(SubSeq(s, m, n)) = n - m + 1
         /\ \A i \in 1..(n - m + 1) : SubSeq(s, m, n)[i] = s[m + i - 1]
<1>1. Len(s) \in Nat /\ DOMAIN s = 1..Len(s)
  BY LenProperties
<1>2. \A i \in m..n : s[i] \in S
  BY <1>1, ElementOfSeq
<1>3. QED
  BY <1>1, <1>2, SubSeqProperties, LenProperties, Z3

\* Of a concatenation.
LEMMA ElemsConcat ==
  ASSUME NEW S, NEW s \in Seq(S), NEW u \in Seq(S)
  PROVE  s \o u \in Seq(S) /\ Elems(s \o u) = Elems(s) \cup Elems(u)
<1>1. /\ s \o u \in Seq(S)
      /\ Len(s) \in Nat /\ Len(u) \in Nat
      /\ DOMAIN s = 1..Len(s)
      /\ DOMAIN u = 1..Len(u)
      /\ DOMAIN (s \o u) = 1..(Len(s) + Len(u))
      /\ \A i \in 1..(Len(s) + Len(u)) :
           (s \o u)[i] = IF i <= Len(s) THEN s[i] ELSE u[i - Len(s)]
  BY ConcatAt
<1>2. Elems(s \o u) \subseteq Elems(s) \cup Elems(u)
  <2> SUFFICES ASSUME NEW i \in 1..(Len(s) + Len(u))
               PROVE  (s \o u)[i] \in Elems(s) \cup Elems(u)
    BY <1>1 DEF Elems
  <2>1. CASE i <= Len(s)
    BY <1>1, <2>1 DEF Elems
  <2>2. CASE i > Len(s)
    <3>1. i - Len(s) \in 1..Len(u)
      BY <1>1, <2>2
    <3>2. QED
      BY <1>1, <2>2, <3>1 DEF Elems
  <2>3. QED
    BY <1>1, <2>1, <2>2
<1>3. Elems(s) \subseteq Elems(s \o u)
  <2> SUFFICES ASSUME NEW i \in 1..Len(s)
               PROVE  s[i] \in Elems(s \o u)
    BY <1>1 DEF Elems
  <2>1. i \in 1..(Len(s) + Len(u)) /\ (s \o u)[i] = s[i]
    BY <1>1
  <2>2. QED
    BY <1>1, <2>1 DEF Elems
<1>4. Elems(u) \subseteq Elems(s \o u)
  <2> SUFFICES ASSUME NEW i \in 1..Len(u)
               PROVE  u[i] \in Elems(s \o u)
    BY <1>1 DEF Elems
  <2>1. Len(s) + i \in 1..(Len(s) + Len(u)) /\ (s \o u)[Len(s) + i] = u[i]
    BY <1>1
  <2>2. QED
    BY <1>1, <2>1 DEF Elems
<1>5. QED
  BY <1>1, <1>2, <1>3, <1>4

\* Of a list without its head.
LEMMA ElemsTail ==
  ASSUME NEW S, NEW s \in Seq(S), s # <<>>
  PROVE  /\ Head(s) \in S /\ Tail(s) \in Seq(S)
         /\ Elems(s) = {Head(s)} \cup Elems(Tail(s))
<1>1. /\ Head(s) \in S /\ Tail(s) \in Seq(S) /\ Head(s) = s[1]
      /\ Len(s) \in Nat \ {0} /\ DOMAIN s = 1..Len(s)
      /\ DOMAIN Tail(s) = 1..(Len(s) - 1)
      /\ \A i \in 1..(Len(s) - 1) : Tail(s)[i] = s[i + 1]
  BY HeadTailProperties, LenProperties, EmptySeq
<1>2. Elems(s) \subseteq {Head(s)} \cup Elems(Tail(s))
  <2> SUFFICES ASSUME NEW i \in 1..Len(s), i # 1
               PROVE  s[i] \in Elems(Tail(s))
    BY <1>1 DEF Elems
  <2>1. i - 1 \in 1..(Len(s) - 1) /\ Tail(s)[i - 1] = s[i]
    BY <1>1
  <2>2. QED
    BY <1>1, <2>1 DEF Elems
<1>3. {Head(s)} \cup Elems(Tail(s)) \subseteq Elems(s)
  <2>1. Head(s) \in Elems(s)
    BY <1>1 DEF Elems
  <2> SUFFICES ASSUME NEW i \in 1..(Len(s) - 1)
               PROVE  Tail(s)[i] \in Elems(s)
    BY <1>1, <2>1 DEF Elems
  <2>2. i + 1 \in 1..Len(s) /\ Tail(s)[i] = s[i + 1]
    BY <1>1
  <2>3. QED
    BY <1>1, <2>2 DEF Elems
<1>4. QED
  BY <1>1, <1>2, <1>3

\* Of a part of a list.
LEMMA ElemsSubSeq ==
  ASSUME NEW S, NEW s \in Seq(S), NEW m \in 1..Len(s) + 1, NEW n \in 0..Len(s)
  PROVE  /\ SubSeq(s, m, n) \in Seq(S)
         /\ Elems(SubSeq(s, m, n)) = {s[i] : i \in m..n}
<1>1. /\ SubSeq(s, m, n) \in Seq(S)
      /\ Len(s) \in Nat
      /\ DOMAIN SubSeq(s, m, n) = 1..(n - m + 1)
      /\ \A i \in 1..(n - m + 1) : SubSeq(s, m, n)[i] = s[m + i - 1]
  BY SubSeqAt
<1>2. Elems(SubSeq(s, m, n)) \subseteq {s[i] : i \in m..n}
  <2> SUFFICES ASSUME NEW i \in 1..(n - m + 1)
               PROVE  SubSeq(s, m, n)[i] \in {s[k] : k \in m..n}
    BY <1>1 DEF Elems
  <2>1. m + i - 1 \in m..n /\ SubSeq(s, m, n)[i] = s[m + i - 1]
    BY <1>1
  <2>2. QED
    BY <2>1
<1>3. {s[i] : i \in m..n} \subseteq Elems(SubSeq(s, m, n))
  <2> SUFFICES ASSUME NEW i \in m..n
               PROVE  s[i] \in Elems(SubSeq(s, m, n))
    OBVIOUS
  <2>1. i - m + 1 \in 1..(n - m + 1) /\ SubSeq(s, m, n)[i - m + 1] = s[i]
    BY <1>1
  <2>2. QED
    BY <1>1, <2>1 DEF Elems
<1>4. QED
  BY <1>1, <1>2, <1>3

\* LREM finds the newest occurrence of what is in the list, and removes
\* nothing else.
LEMMA NewestOccurrence ==
  ASSUME NEW S, NEW s \in Seq(S), NEW x \in Elems(s)
  PROVE  \E n \in DOMAIN s : s[n] = x /\ \A m \in DOMAIN s : s[m] = x => m <= n
<1> DEFINE ages == {Len(s) - i : i \in {k \in DOMAIN s : s[k] = x}}
<1>1. DOMAIN s = 1..Len(s) /\ Len(s) \in Nat
  BY LenProperties
<1>2. ages \subseteq Nat /\ ages # {}
  BY <1>1 DEF Elems
<1>3. PICK a \in ages : \A b \in ages : ~ (<<b, a>> \in OpToRel(<, Nat))
  <2> HIDE DEF ages
  <2>1. QED
    BY <1>2, WFMin, NatLessThanWellFounded, Zenon
<1>4. \A b \in ages : ~ (b < a)
  BY <1>2, <1>3, Zenon DEF OpToRel
<1>5. PICK n \in DOMAIN s : s[n] = x /\ a = Len(s) - n
  BY <1>3
<1>6. ASSUME NEW m \in DOMAIN s, s[m] = x
      PROVE  m <= n
  <2>1. ~ (Len(s) - m < a)
    BY <1>4, <1>6
  <2> HIDE DEF ages
  <2>2. m \in Nat /\ n \in Nat /\ a = Len(s) - n /\ Len(s) \in Nat
    BY <1>1, <1>5, <1>6
  <2>3. QED
    BY <2>1, <2>2
<1>7. QED
  BY <1>5, <1>6

\* LREM takes out at most the elements equal to its argument.
LEMMA ElemsWithout ==
  ASSUME NEW S, NEW s \in Seq(S), NEW x
  PROVE  /\ Without(s, x) \in Seq(S)
         /\ Elems(Without(s, x)) \subseteq Elems(s)
         /\ Elems(s) \subseteq Elems(Without(s, x)) \cup {x}
<1>1. CASE x \notin Elems(s)
  BY <1>1 DEF Without
<1>2. CASE x \in Elems(s)
  <2> DEFINE newest(n) == s[n] = x /\ \A m \in DOMAIN s : s[m] = x => m <= n
             rest(n)   == SubSeq(s, 1, n - 1) \o SubSeq(s, n + 1, Len(s))
             which     == CHOOSE n \in DOMAIN s : newest(n)
  <2>1. DOMAIN s = 1..Len(s) /\ Len(s) \in Nat
    BY LenProperties
  <2>2. which \in DOMAIN s /\ newest(which)
    <3>1. \E n \in DOMAIN s : newest(n)
      BY <1>2, NewestOccurrence
    <3> HIDE DEF newest
    <3>2. QED
      BY <3>1
  <2>3. Without(s, x) = rest(which)
    BY <1>2 DEF Without
  <2> HIDE DEF which
  <2>4. PICK n \in 1..Len(s) : s[n] = x /\ Without(s, x) = rest(n)
    BY <2>1, <2>2, <2>3
  <2> DEFINE left  == SubSeq(s, 1, n - 1)
             right == SubSeq(s, n + 1, Len(s))
  <2>5. left \in Seq(S) /\ Elems(left) = {s[i] : i \in 1..(n - 1)}
    BY <2>1, ElemsSubSeq
  <2>6. right \in Seq(S) /\ Elems(right) = {s[i] : i \in (n + 1)..Len(s)}
    BY <2>1, ElemsSubSeq
  <2>7. Without(s, x) = left \o right
    BY <2>4
  <2> HIDE DEF left, right
  <2>8. Without(s, x) \in Seq(S) /\ Elems(Without(s, x)) = Elems(left) \cup Elems(right)
    BY <2>5, <2>6, <2>7, ElemsConcat
  <2>9. Elems(s) = {s[i] : i \in 1..Len(s)}
    BY <2>1 DEF Elems
  <2>10. \A i \in 1..Len(s) : i \in 1..(n - 1) \/ i = n \/ i \in (n + 1)..Len(s)
    BY <2>1
  <2>11. 1..(n - 1) \subseteq 1..Len(s) /\ (n + 1)..Len(s) \subseteq 1..Len(s)
    BY <2>1
  <2>12. Elems(s) \subseteq Elems(left) \cup Elems(right) \cup {x}
    BY <2>4, <2>5, <2>6, <2>9, <2>10
  <2>13. Elems(left) \cup Elems(right) \subseteq Elems(s)
    BY <2>5, <2>6, <2>9, <2>11
  <2>14. QED
    BY <2>8, <2>12, <2>13
<1>3. QED
  BY <1>1, <1>2

\* A list stays without repetitions when something new is appended to it,
LEMMA DistinctAppend ==
  ASSUME NEW S, NEW s \in Seq(S), Distinct(s), NEW x \in S, x \notin Elems(s)
  PROVE  Distinct(Append(s, x))
<1>1. /\ DOMAIN Append(s, x) = 1..(Len(s) + 1)
      /\ \A i \in 1..Len(s) : Append(s, x)[i] = s[i]
      /\ Append(s, x)[Len(s) + 1] = x
      /\ DOMAIN s = 1..Len(s) /\ Len(s) \in Nat
  OBVIOUS
<1>2. \A i \in 1..Len(s) : s[i] # x
  BY <1>1 DEF Elems
<1>3. QED
  BY <1>1, <1>2 DEF Distinct

\* ... or another one that has nothing in common with it,
LEMMA DistinctConcat ==
  ASSUME NEW S, NEW s \in Seq(S), NEW u \in Seq(S), Distinct(s), Distinct(u),
         Elems(s) \cap Elems(u) = {}
  PROVE  Distinct(s \o u)
<1>1. /\ Len(s) \in Nat /\ Len(u) \in Nat
      /\ DOMAIN s = 1..Len(s)
      /\ DOMAIN u = 1..Len(u)
      /\ DOMAIN (s \o u) = 1..(Len(s) + Len(u))
      /\ \A i \in 1..(Len(s) + Len(u)) :
           (s \o u)[i] = IF i <= Len(s) THEN s[i] ELSE u[i - Len(s)]
  BY ConcatAt
<1>2. \A i \in 1..Len(s), k \in 1..Len(u) : s[i] # u[k]
  BY <1>1 DEF Elems
<1> SUFFICES ASSUME NEW m \in 1..(Len(s) + Len(u)), NEW n \in 1..(Len(s) + Len(u)),
                    (s \o u)[m] = (s \o u)[n]
             PROVE  m = n
  BY <1>1 DEF Distinct
<1>3. CASE m <= Len(s) /\ n <= Len(s)
  BY <1>1, <1>3 DEF Distinct
<1>4. CASE m > Len(s) /\ n > Len(s)
  <2>1. m - Len(s) \in 1..Len(u) /\ n - Len(s) \in 1..Len(u)
    BY <1>1, <1>4
  <2>2. u[m - Len(s)] = u[n - Len(s)]
    BY <1>1, <1>4
  <2>3. m - Len(s) = n - Len(s)
    BY <1>1, <2>1, <2>2 DEF Distinct
  <2>4. QED
    BY <1>1, <2>3
<1>5. CASE m <= Len(s) /\ n > Len(s)
  <2>1. m \in 1..Len(s) /\ n - Len(s) \in 1..Len(u) /\ s[m] = u[n - Len(s)]
    BY <1>1, <1>5
  <2>2. QED
    BY <1>2, <2>1
<1>6. CASE m > Len(s) /\ n <= Len(s)
  <2>1. n \in 1..Len(s) /\ m - Len(s) \in 1..Len(u) /\ s[n] = u[m - Len(s)]
    BY <1>1, <1>6
  <2>2. QED
    BY <1>2, <2>1
<1>7. QED
  BY <1>1, <1>3, <1>4, <1>5, <1>6

\* ... or is cut,
LEMMA DistinctSubSeq ==
  ASSUME NEW S, NEW s \in Seq(S), Distinct(s), NEW m \in 1..Len(s) + 1, NEW n \in 0..Len(s)
  PROVE  Distinct(SubSeq(s, m, n))
<1>1. /\ Len(s) \in Nat /\ DOMAIN s = 1..Len(s)
      /\ DOMAIN SubSeq(s, m, n) = 1..(n - m + 1)
      /\ \A i \in 1..(n - m + 1) : SubSeq(s, m, n)[i] = s[m + i - 1]
  BY SubSeqAt, LenProperties
<1> SUFFICES ASSUME NEW i \in 1..(n - m + 1), NEW k \in 1..(n - m + 1),
                    s[m + i - 1] = s[m + k - 1]
             PROVE  i = k
  BY <1>1 DEF Distinct
<1>2. m + i - 1 \in 1..Len(s) /\ m + k - 1 \in 1..Len(s)
  BY <1>1
<1>3. m + i - 1 = m + k - 1
  BY <1>1, <1>2 DEF Distinct
<1>4. QED
  BY <1>3

\* ... or loses its first element, which is not left in it,
LEMMA DistinctTail ==
  ASSUME NEW S, NEW s \in Seq(S), Distinct(s), s # <<>>
  PROVE  Distinct(Tail(s)) /\ Head(s) \notin Elems(Tail(s))
<1>1. /\ Head(s) = s[1]
      /\ Len(s) \in Nat \ {0} /\ DOMAIN s = 1..Len(s)
      /\ DOMAIN Tail(s) = 1..(Len(s) - 1)
      /\ \A i \in 1..(Len(s) - 1) : Tail(s)[i] = s[i + 1]
  BY HeadTailProperties, LenProperties, EmptySeq
<1>2. Distinct(Tail(s))
  BY <1>1 DEF Distinct
<1>3. ASSUME NEW i \in 1..(Len(s) - 1), Tail(s)[i] = s[1]
      PROVE  FALSE
  BY <1>1, <1>3 DEF Distinct
<1>4. QED
  BY <1>1, <1>2, <1>3 DEF Elems

\* ... or its last one.
LEMMA DistinctFront ==
  ASSUME NEW S, NEW s \in Seq(S), Distinct(s), s # <<>>
  PROVE  /\ Distinct(SubSeq(s, 1, Len(s) - 1))
         /\ s[Len(s)] \notin Elems(SubSeq(s, 1, Len(s) - 1))
<1>1. Len(s) \in Nat \ {0} /\ DOMAIN s = 1..Len(s)
  BY LenProperties, EmptySeq
<1>2. 1 \in 1..Len(s) + 1 /\ Len(s) - 1 \in 0..Len(s)
  BY <1>1
<1>3. Elems(SubSeq(s, 1, Len(s) - 1)) = {s[i] : i \in 1..(Len(s) - 1)}
  BY <1>2, ElemsSubSeq
<1>4. \A i \in 1..(Len(s) - 1) : s[i] # s[Len(s)]
  BY <1>1 DEF Distinct
<1>5. QED
  BY <1>2, <1>3, <1>4, DistinctSubSeq

\* LREM does not repeat anything.
LEMMA DistinctWithout ==
  ASSUME NEW S, NEW s \in Seq(S), Distinct(s), NEW x
  PROVE  Distinct(Without(s, x))
<1>1. CASE x \notin Elems(s)
  BY <1>1 DEF Without
<1>2. CASE x \in Elems(s)
  <2>1. DOMAIN s = 1..Len(s) /\ Len(s) \in Nat
    BY LenProperties
  <2>2. PICK n \in 1..Len(s) :
          Without(s, x) = SubSeq(s, 1, n - 1) \o SubSeq(s, n + 1, Len(s))
    <3> DEFINE newest(n) == s[n] = x /\ \A m \in DOMAIN s : s[m] = x => m <= n
               which     == CHOOSE n \in DOMAIN s : newest(n)
    <3>1. which \in DOMAIN s
      <4>1. \E n \in DOMAIN s : newest(n)
        BY <1>2, NewestOccurrence
      <4> HIDE DEF newest
      <4>2. QED
        BY <4>1
    <3>2. Without(s, x) = SubSeq(s, 1, which - 1) \o SubSeq(s, which + 1, Len(s))
      BY <1>2 DEF Without
    <3> HIDE DEF which
    <3>3. QED
      BY <2>1, <3>1, <3>2
  <2> DEFINE left  == SubSeq(s, 1, n - 1)
             right == SubSeq(s, n + 1, Len(s))
  <2>3. left \in Seq(S) /\ Distinct(left) /\ Elems(left) = {s[i] : i \in 1..(n - 1)}
    BY <2>1, ElemsSubSeq, DistinctSubSeq
  <2>4. right \in Seq(S) /\ Distinct(right) /\ Elems(right) = {s[i] : i \in (n + 1)..Len(s)}
    BY <2>1, ElemsSubSeq, DistinctSubSeq
  <2>5. \A i \in 1..(n - 1), k \in (n + 1)..Len(s) : s[i] # s[k]
    BY <2>1 DEF Distinct
  <2> HIDE DEF left, right
  <2>6. Distinct(left \o right)
    BY <2>3, <2>4, <2>5, DistinctConcat
  <2>7. QED
    BY <2>2, <2>6 DEF left, right
<1>3. QED
  BY <1>1, <1>2
-----------------------------------------------------------------------------
(* Types. *)

\* The steps of a request keep the types.
LEMMA RequestTypes ==
  ASSUME TypeOK, NEW j \in Jobs,
         Request(j) \/ Refuse(j) \/ Abandon(j) \/ DeleteJob(j)
  PROVE  TypeOK'
<1> USE DEF TypeOK, SubmitPCs, InFlight, Statuses, Terminal, Usages, Submit,
            requests, database, redis, process, ghosts
<1>1. CASE ReadCache(j)
  BY <1>1 DEF ReadCache
<1>2. CASE InsertQueued(j)
  BY <1>2 DEF InsertQueued
<1>3. CASE InsertCached(j)
  BY <1>3 DEF InsertCached
<1>4. CASE Charge(j)
  BY <1>4 DEF Charge
<1>5. CASE CreditsExhausted(j) \/ ChargeWithoutRow(j) \/ Refuse(j)
  BY <1>5 DEF CreditsExhausted, ChargeWithoutRow, Refuse
<1>6. CASE RemoveRefused(j)
  BY <1>6 DEF RemoveRefused
<1>7. CASE HashQueued(j)
  BY <1>7 DEF HashQueued
<1>8. CASE Push(j)
  <2>1. queue' \in Seq(Jobs)
    <3> DEFINE two == <<j, j>>
    <3>1. two \in Seq(Jobs)
      OBVIOUS
    <3>2. queue' = Append(queue, j) \/ queue' = queue \o two
      BY <1>8 DEF Push
    <3> HIDE DEF two
    <3>3. CASE queue' = Append(queue, j)
      BY <3>3, ElemsAppend
    <3>4. CASE queue' = queue \o two
      BY <3>1, <3>4, ElemsConcat
    <3>5. QED
      BY <3>2, <3>3, <3>4
  <2>2. faults' \in 0..MaxFaults
    BY <1>8, PipelineAssumption DEF Push, Sent, Resent, PushResent, Fault
  <2>3. QED
    BY <1>8, <2>1, <2>2 DEF Push, Sent, Resent, PushResent
<1>9. CASE Abandon(j)
  BY <1>9, PipelineAssumption DEF Abandon, Fault
<1>10. CASE DeleteJob(j)
  BY <1>10 DEF DeleteJob
<1>11. QED
  BY <1>1, <1>2, <1>3, <1>4, <1>5, <1>6, <1>7, <1>8, <1>9, <1>10 DEF Request

\* The steps of a task do: one that is not idle has a job.
LEMMA TaskTypes ==
  ASSUME TypeOK, TasksInv, NEW t \in Tasks,
         Process(t) \/ Cancel(t) \/ DbError(t) \/ RedisError(t) \/ EndTaskWithoutLrem(t)
  PROVE  TypeOK'
<1>1. tpc[t] # "idle" => tjob[t] \in Jobs
  BY DEF TypeOK, TasksInv
<1> USE <1>1 DEF TypeOK, TaskPCs, Working, FirstFail, LastFail, SlotUsers, Statuses,
            Terminal, Usages, Task, SetHash, RowWith, UsageWith,
            requests, database, redis, process, ghosts
<1>2. CASE ReadRow(t) \/ AcquireSlot(t) \/ SlotTimeout(t) \/ EngineError(t) \/ ReleaseSlot(t) \/ Notify(t)
  BY <1>2 DEF ReadRow, AcquireSlot, SlotTimeout, EngineError, ReleaseSlot, Notify
<1>3. CASE MarkRow(t)
  BY <1>3 DEF MarkRow
<1>4. CASE MarkHash(t) \/ Publish(t) \/ FailHash(t)
  BY <1>4 DEF MarkHash, Publish, FailHash
<1>5. CASE Complete(t)
  BY <1>5 DEF Complete
<1>6. CASE Settle(t)
  BY <1>6 DEF Settle
<1>7. CASE FillCache(t)
  BY <1>7, PipelineAssumption DEF FillCache
<1>8. CASE FailRow(t)
  BY <1>8 DEF FailRow
<1>9. CASE FailRefund(t)
  BY <1>9 DEF FailRefund
<1>10. CASE EndTask(t)
  <2>1. processing' \in Seq(Jobs)
    BY <1>10, ElemsWithout DEF EndTask
  <2>2. faults' \in 0..MaxFaults
    BY <1>10, PipelineAssumption DEF EndTask, Sent, Resent, Fault
  <2>3. QED
    BY <1>10, <2>1, <2>2 DEF EndTask, Sent, Resent
<1>11. CASE Cancel(t)
  <2>1. leaked' \in Nat
    BY <1>11 DEF Cancel
  <2>2. tpc' \in [Tasks -> TaskPCs] /\ tjob' \in [Tasks -> Jobs \cup {NoJob}]
    BY <1>11 DEF Cancel
  <2>3. unrecorded' \in SUBSET Jobs
    BY <1>1, <1>11 DEF Cancel
  <2>4. QED
    BY <1>11, <2>1, <2>2, <2>3 DEF Cancel
<1>12. \A p \in UsesDatabase \cup UsesRedis : OnError(p) \in TaskPCs
  <2> SUFFICES ASSUME NEW p \in UsesDatabase \cup UsesRedis
               PROVE  OnError(p) \in TaskPCs
    OBVIOUS
  <2>1. CASE p \in {"read", "acquire", "release", "fail_release"}
    BY <2>1 DEF OnError
  <2>2. CASE p \in Working \ {"release"}
    BY <2>2 DEF OnError
  <2>3. CASE p \in FirstFail \ {"fail_release"}
    BY <2>3 DEF OnError
  <2>4. CASE p \in LastFail \cup {"notify"}
    BY <2>4 DEF OnError
  <2>5. QED
    BY <2>1, <2>2, <2>3, <2>4 DEF UsesDatabase, UsesRedis
<1>13. CASE DbError(t)
  <2>1. tpc'[t] \in TaskPCs /\ tpc' = [tpc EXCEPT ![t] = OnError(tpc[t])] /\ tpc[t] # "idle"
    BY <1>12, <1>13 DEF DbError, Raise, UsesDatabase
  <2>2. faults' \in 0..MaxFaults
    BY <1>13, PipelineAssumption DEF DbError, Fault
  <2>3. QED
    BY <1>13, <2>1, <2>2 DEF DbError, Raise
<1>14. CASE RedisError(t)
  <2>1. tpc'[t] \in TaskPCs /\ tpc' = [tpc EXCEPT ![t] = OnError(tpc[t])] /\ tpc[t] # "idle"
    BY <1>12, <1>14 DEF RedisError, Raise, UsesRedis
  <2>2. faults' \in 0..MaxFaults
    BY <1>14, PipelineAssumption DEF RedisError, Fault
  <2>3. QED
    BY <1>14, <2>1, <2>2 DEF RedisError, Raise
<1>15. CASE EndTaskWithoutLrem(t)
  BY <1>15, PipelineAssumption DEF EndTaskWithoutLrem, Fault
<1>16. QED
  BY <1>2, <1>3, <1>4, <1>5, <1>6, <1>7, <1>8, <1>9, <1>10, <1>11, <1>13, <1>14, <1>15
     DEF Process

\* The steps of the worker's loop, of recovery and of the environment do.
LEMMA LoopTypes ==
  ASSUME TypeOK, RecoveryInv,
         Loop \/ RecoveryFails \/ Stop \/ Crash \/ ReapSlot
           \/ (\E t \in Tasks : Pop(t)) \/ (\E i \in Inputs : ExpireCache(i))
  PROVE  TypeOK'
<1> USE DEF TypeOK, requests, database, redis, process, ghosts
<1>1. CASE StartWorker
  BY <1>1 DEF StartWorker
<1>2. CASE Requeue
  <2>1. Len(orphans) \in Nat \ {0} /\ orphans[Len(orphans)] \in Jobs
    BY <1>2, EmptySeq, LenProperties, ElementOfSeq DEF Requeue, RecoveryInv
  <2> DEFINE o == orphans[Len(orphans)]
  <2>2. <<o>> \in Seq(Jobs) /\ <<o, o>> \in Seq(Jobs)
    BY <2>1
  <2>3. queue' \in Seq(Jobs)
    <3>1. PICK s \in Seq(Jobs) : queue' = s \o queue
      BY <1>2, <2>2 DEF Requeue
    <3>2. QED
      BY <3>1, ElemsConcat
  <2>4. orphans' \in Seq(Jobs)
    BY <1>2, <2>1, ElemsSubSeq DEF Requeue
  <2>5. faults' \in 0..MaxFaults
    BY <1>2, PipelineAssumption DEF Requeue, Sent, Resent, PushResent, Fault
  <2>6. QED
    BY <1>2, <2>3, <2>4, <2>5 DEF Requeue, Sent, Resent, PushResent
<1>3. CASE Discard
  BY <1>3, EmptySeq DEF Discard
<1>4. CASE LeaveLoop \/ Exit
  BY <1>4 DEF LeaveLoop, Exit
<1>5. CASE Stop \/ RecoveryFails
  <2>1. doubled' \in BOOLEAN
    BY <1>5, Zenon DEF Stop, RecoveryFails, HalfRecovered
  <2>2. /\ faults' \in 0..MaxFaults /\ orphans' \in Seq(Jobs)
        /\ worker' \in {"stopping", "down", "dead"}
        /\ UNCHANGED <<tpc, tjob, requests, database, redis, unrecorded>>
    <3>1. CASE Stop
      BY <3>1, PipelineAssumption DEF Stop, Fault
    <3>2. CASE RecoveryFails
      BY <3>2, PipelineAssumption, EmptySeq DEF RecoveryFails, Fault
    <3>3. QED
      BY <1>5, <3>1, <3>2
  <2>3. QED
    BY <2>1, <2>2
<1>6. CASE Crash
  <2>1. Cardinality({t \in Tasks : tpc[t] \in SlotUsers}) \in Nat
    <3>1. IsFiniteSet(Tasks)
      BY PipelineAssumption, FS_Interval DEF Tasks
    <3>2. QED
      BY <3>1, FS_Subset, FS_CardinalityType
  <2>2. leaked' \in Nat
    BY <1>6, <2>1 DEF Crash
  <2>3. submit' \in [Jobs -> SubmitPCs]
    BY <1>6 DEF Crash, SubmitPCs
  <2>4. QED
    BY <1>6, <2>2, <2>3, PipelineAssumption, EmptySeq DEF Crash, Fault, TaskPCs
<1>7. CASE ReapSlot
  BY <1>7 DEF ReapSlot
<1>8. ASSUME NEW t \in Tasks, Pop(t)
      PROVE  TypeOK'
  <2>1. Head(queue) \in Jobs /\ Tail(queue) \in Seq(Jobs)
    BY <1>8, ElemsTail DEF Pop
  <2>2. Append(processing, Head(queue)) \in Seq(Jobs)
    BY <2>1, ElemsAppend
  <2>3. faults' \in 0..MaxFaults
    BY <1>8, PipelineAssumption DEF Pop, Sent, Resent, Fault
  <2>4. QED
    BY <1>8, <2>1, <2>2, <2>3 DEF Pop, Sent, Resent, TaskPCs
<1>9. ASSUME NEW i \in Inputs, ExpireCache(i)
      PROVE  TypeOK'
  BY <1>9 DEF ExpireCache
<1>10. QED
  BY <1>1, <1>2, <1>3, <1>4, <1>5, <1>6, <1>7, <1>8, <1>9 DEF Loop

\* Every step does.
THEOREM TypeStep == TypeOK /\ TasksInv /\ RecoveryInv /\ [Next]_vars => TypeOK'
<1> SUFFICES ASSUME TypeOK, TasksInv, RecoveryInv, [Next]_vars
             PROVE  TypeOK'
  OBVIOUS
<1>1. CASE UNCHANGED vars
  BY <1>1 DEF TypeOK, vars, requests, database, redis, process, ghosts
<1>2. QED
  BY <1>1, RequestTypes, TaskTypes, LoopTypes DEF Next
-----------------------------------------------------------------------------
(* One lemma for each part of the invariant. *)

\* A task gets a job when it leaves idle and gives it up when it returns.
LEMMA TasksStep ==
  ASSUME TypeOK, TasksInv, RecoveryInv, [Next]_vars
  PROVE  TasksInv'
<1> USE PipelineAssumption
    DEF TypeOK, TasksInv, requests, database, redis, process, ghosts
<1>1. ASSUME NEW j \in Jobs, Request(j) \/ Refuse(j) \/ Abandon(j) \/ DeleteJob(j)
      PROVE  TasksInv'
  BY <1>1 DEF Request, ReadCache, InsertQueued, InsertCached, Charge, CreditsExhausted,
              RemoveRefused, ChargeWithoutRow, HashQueued, Push, Refuse, Abandon, DeleteJob
<1>2. ASSUME NEW t \in Tasks, Pop(t)
      PROVE  TasksInv'
  <2>1. Head(queue) \in Jobs
    BY <1>2, ElemsTail DEF Pop
  <2>2. QED
    BY <1>2, <2>1 DEF Pop
<1>3. ASSUME NEW t \in Tasks, tpc[t] # "idle", worker' = worker,
             \/ tpc'[t] # "idle" /\ tjob' = tjob
             \/ tpc'[t] = "idle" /\ tjob' = [tjob EXCEPT ![t] = NoJob],
             tpc' = [tpc EXCEPT ![t] = tpc'[t]]
      PROVE  TasksInv'
  BY <1>3
<1>4. ASSUME NEW t \in Tasks, Process(t) \/ Cancel(t) \/ EndTaskWithoutLrem(t)
      PROVE  TasksInv'
  <2>1. CASE \/ ReadRow(t) \/ AcquireSlot(t) \/ SlotTimeout(t) \/ MarkRow(t) \/ MarkHash(t)
             \/ Complete(t) \/ EngineError(t) \/ Settle(t) \/ Publish(t) \/ FillCache(t)
             \/ ReleaseSlot(t) \/ Notify(t) \/ FailRow(t) \/ FailRefund(t) \/ FailHash(t)
    <3>1. \E from, to \in TaskPCs \ {"idle"} : Task(t, from, to)
      BY <2>1 DEF ReadRow, AcquireSlot, SlotTimeout, MarkRow, MarkHash, Complete, EngineError,
                  Settle, Publish, FillCache, ReleaseSlot, Notify, FailRow, FailRefund,
                  FailHash, SetHash, TaskPCs, SlotUsers, Working, FirstFail, LastFail
    <3>2. QED
      BY <1>3, <3>1 DEF Task
  <2>2. CASE EndTask(t) \/ EndTaskWithoutLrem(t)
    BY <1>3, <2>2 DEF EndTask, EndTaskWithoutLrem
  <2>3. CASE Cancel(t)
    BY <1>3, <2>3 DEF Cancel
  <2>4. QED
    BY <1>4, <2>1, <2>2, <2>3 DEF Process
<1>5. ASSUME NEW t \in Tasks, DbError(t) \/ RedisError(t)
      PROVE  TasksInv'
  <2>1. \A p \in UsesDatabase \cup UsesRedis : p # "idle" /\ OnError(p) # "idle"
    BY DEF OnError, UsesDatabase, UsesRedis, Working, FirstFail, LastFail
  <2>2. /\ tpc[t] \in UsesDatabase \cup UsesRedis
        /\ tpc' = [tpc EXCEPT ![t] = OnError(tpc[t])]
        /\ worker' = worker /\ tjob' = tjob
    BY <1>5 DEF DbError, RedisError, Raise
  <2>3. QED
    BY <1>3, <2>1, <2>2
<1>6. CASE Loop \/ RecoveryFails \/ Stop \/ Crash \/ ReapSlot \/ \E i \in Inputs : ExpireCache(i)
  BY <1>6 DEF Loop, StartWorker, Requeue, Discard, LeaveLoop, Exit, RecoveryFails, Stop, Crash, ReapSlot,
              ExpireCache
<1>7. CASE UNCHANGED vars
  BY <1>7 DEF vars
<1>8. QED
  BY <1>1, <1>2, <1>4, <1>5, <1>6, <1>7 DEF Next

\* An accepted request is over.
LEMMA AcceptedStep ==
  ASSUME TypeOK, [Next]_vars, NEW j \in Jobs, Accepted(j)
  PROVE  Accepted(j)'
<1> USE DEF TypeOK, Accepted, Submit, InFlight, requests, database, redis, process, ghosts
<1>1. ASSUME NEW k \in Jobs, Request(k) \/ Refuse(k) \/ Abandon(k) \/ DeleteJob(k)
      PROVE  Accepted(j)'
  BY <1>1 DEF Request, ReadCache, InsertQueued, InsertCached, Charge, CreditsExhausted,
              RemoveRefused, ChargeWithoutRow, HashQueued, Push, Refuse, Abandon, DeleteJob
<1>2. ASSUME NEW t \in Tasks, \/ Pop(t) \/ Process(t) \/ Cancel(t)
                              \/ DbError(t) \/ RedisError(t) \/ EndTaskWithoutLrem(t)
      PROVE  submit' = submit
  BY <1>2 DEF Pop, Process, ReadRow, AcquireSlot, SlotTimeout, MarkRow, MarkHash, Complete,
              EngineError, Settle, Publish, FillCache, ReleaseSlot, Notify, FailRow, FailRefund,
              FailHash, EndTask, SetHash, Task, Cancel, DbError, RedisError, Raise,
              EndTaskWithoutLrem
<1>3. CASE Loop \/ RecoveryFails \/ Stop \/ Crash \/ ReapSlot \/ \E i \in Inputs : ExpireCache(i)
  BY <1>3 DEF Loop, StartWorker, Requeue, Discard, LeaveLoop, Exit, RecoveryFails, Stop, Crash, ReapSlot,
              ExpireCache
<1>4. CASE UNCHANGED vars
  BY <1>4 DEF vars
<1>5. QED
  BY <1>1, <1>2, <1>3, <1>4 DEF Next

\* A task's step other than Pop moves the lists by its LREM only, and its job
\* stays its job or becomes nobody's.
LEMMA TaskLists ==
  ASSUME TypeOK, NEW t \in Tasks,
         Process(t) \/ Cancel(t) \/ DbError(t) \/ RedisError(t) \/ EndTaskWithoutLrem(t)
  PROVE  /\ submit' = submit /\ queue' = queue /\ orphans' = orphans /\ worker' = worker
         /\ processing' = processing \/ EndTask(t)
         /\ tjob' = tjob \/ tjob' = [tjob EXCEPT ![t] = NoJob]
BY DEF Process, ReadRow, AcquireSlot, SlotTimeout, MarkRow, MarkHash, Complete,
       EngineError, Settle, Publish, FillCache, ReleaseSlot, Notify, FailRow, FailRefund,
       FailHash, EndTask, SetHash, Task, Cancel, DbError, RedisError, Raise,
       EndTaskWithoutLrem, requests, database, redis, process, ghosts

\* A request's step moves the lists by its LPUSH only.
LEMMA RequestLists ==
  ASSUME TypeOK, NEW j \in Jobs,
         Request(j) \/ Refuse(j) \/ Abandon(j) \/ DeleteJob(j)
  PROVE  /\ UNCHANGED <<worker, orphans, processing, tjob, tpc, unrecorded>>
         /\ queue' = queue \/ Push(j)
         /\ \A k \in Jobs \ {j} : submit'[k] = submit[k] /\ row'[k] = row[k]
BY DEF Sent, Resent, PushResent, Request, ReadCache, InsertQueued, InsertCached, Charge,
       CreditsExhausted, RemoveRefused, ChargeWithoutRow, HashQueued, Push, Refuse, Abandon, DeleteJob,
       Submit, TypeOK, requests, database, redis, process, ghosts

\* Recovery moves the newest orphan into the queue.
LEMMA RequeueLists ==
  ASSUME TypeOK, RecoveryInv, Requeue
  PROVE  /\ \E o \in Jobs : /\ Elems(orphans) = Elems(orphans') \cup {o}
                            /\ Elems(queue') = Elems(queue) \cup {o}
         /\ Len(orphans) # 1 => orphans' # <<>>
         /\ Len(orphans) = 1 => Elems(orphans') = {}
         /\ UNCHANGED <<processing, tpc, tjob, submit, row, unrecorded>>
<1> DEFINE n == Len(orphans)
           o == orphans[n]
<1>1. orphans \in Seq(Jobs) /\ queue \in Seq(Jobs) /\ orphans # <<>>
  BY DEF TypeOK, Requeue, RecoveryInv
<1>2. n \in Nat \ {0} /\ DOMAIN orphans = 1..n /\ o \in Jobs
  BY <1>1, EmptySeq, LenProperties, ElementOfSeq
<1>3. /\ queue' = <<o>> \o queue \/ queue' = <<o, o>> \o queue
      /\ orphans' = SubSeq(orphans, 1, n - 1)
  BY DEF Requeue
<1>4. Elems(orphans') = {orphans[i] : i \in 1..(n - 1)}
  <2>1. 1 \in 1..(Len(orphans) + 1) /\ n - 1 \in 0..Len(orphans)
    BY <1>2
  <2>2. QED
    BY <1>1, <1>3, <2>1, ElemsSubSeq
<1>5. Elems(orphans) = Elems(orphans') \cup {o}
  <2>1. Elems(orphans) = {orphans[i] : i \in 1..n}
    BY <1>2 DEF Elems
  <2>2. 1..n = 1..(n - 1) \cup {n}
    BY <1>2
  <2> HIDE DEF n
  <2>3. QED
    BY <1>4, <2>1, <2>2 DEF o
<1>6. Elems(queue') = Elems(queue) \cup {o}
  <2> DEFINE one == <<o>>
             two == <<o, o>>
  <2>1. one \in Seq(Jobs) /\ Elems(one) = {o}
    BY <1>2 DEF Elems
  <2>2. two \in Seq(Jobs) /\ Elems(two) = {o}
    BY <1>2 DEF Elems
  <2>3. queue' = one \o queue \/ queue' = two \o queue
    BY <1>3
  <2> HIDE DEF one, two, o
  <2>4. PICK s \in Seq(Jobs) : Elems(s) = {o} /\ queue' = s \o queue
    BY <2>1, <2>2, <2>3
  <2>5. QED
    BY <1>1, <2>4, ElemsConcat
<1>7. n # 1 => orphans' # <<>>
  <2>1. n # 1 => orphans[1] \in Elems(orphans')
    BY <1>2, <1>4
  <2>2. Elems(<<>>) = {}
    BY DEF Elems
  <2>3. QED
    BY <2>1, <2>2
<1>8. n = 1 => Elems(orphans') = {}
  BY <1>4
<1>9. QED
  BY <1>2, <1>5, <1>6, <1>7, <1>8 DEF Requeue, Sent, Resent, PushResent, requests, database, ghosts

\* A request's LPUSH adds its own job.
LEMMA PushLists ==
  ASSUME TypeOK, NEW j \in Jobs, Push(j)
  PROVE  Elems(queue') = Elems(queue) \cup {j}
<1>1. CASE queue' = Append(queue, j)
  BY <1>1, ElemsAppend DEF TypeOK
<1>2. CASE queue' = queue \o <<j, j>>
  <2> DEFINE two == <<j, j>>
  <2>1. two \in Seq(Jobs) /\ Elems(two) = {j}
    BY DEF Elems
  <2> HIDE DEF two
  <2>2. queue' = queue \o two
    BY <1>2 DEF two
  <2>3. QED
    BY <2>1, <2>2, ElemsConcat DEF TypeOK
<1>3. QED
  BY <1>1, <1>2 DEF Push

\* A pop parks what it takes, whether or not a task gets it.
LEMMA PopLists ==
  ASSUME TypeOK, NEW t \in Tasks, Pop(t)
  PROVE  \E j \in Jobs : /\ Elems(queue) = Elems(queue') \cup {j}
                         /\ Elems(processing') = Elems(processing) \cup {j}
                         /\ tjob' \in {tjob, [tjob EXCEPT ![t] = j]}
                         /\ UNCHANGED <<orphans, submit, row, unrecorded>>
<1>1. Elems(queue) = {Head(queue)} \cup Elems(queue') /\ Head(queue) \in Jobs
  BY ElemsTail DEF TypeOK, Pop
<1>2. Elems(processing') = Elems(processing) \cup {Head(queue)}
  BY <1>1, ElemsAppend DEF TypeOK, Pop
<1>3. QED
  BY <1>1, <1>2 DEF Pop, Sent, Resent, requests, database, ghosts

\* The LREM of a task takes out its own job at most.
LEMMA EndTaskLists ==
  ASSUME TypeOK, NEW t \in Tasks, EndTask(t)
  PROVE  /\ queue' = queue
         /\ Elems(processing') \subseteq Elems(processing)
         /\ Elems(processing) \subseteq Elems(processing') \cup {tjob[t]}
<1> DEFINE once  == Without(processing, tjob[t])
           twice == Without(once, tjob[t])
<1>1. /\ once \in Seq(Jobs)
      /\ Elems(once) \subseteq Elems(processing)
      /\ Elems(processing) \subseteq Elems(once) \cup {tjob[t]}
  BY ElemsWithout DEF TypeOK
<1>2. /\ Elems(twice) \subseteq Elems(once)
      /\ Elems(once) \subseteq Elems(twice) \cup {tjob[t]}
  <2> HIDE DEF once
  <2>1. QED
    BY <1>1, ElemsWithout
<1>3. processing' = once \/ processing' = twice
  BY DEF EndTask
<1> HIDE DEF once, twice
<1>4. QED
  BY <1>1, <1>2, <1>3 DEF EndTask

\* LPUSH is the only way into the lists, and it is what accepts a request.
LEMMA KnownStep ==
  ASSUME TypeOK, RecoveryInv, KnownAccepted, [Next]_vars
  PROVE  KnownAccepted'
<1> SUFFICES ASSUME NEW j \in Jobs, Known(j)', ~Accepted(j)
             PROVE  Accepted(j)'
  BY AcceptedStep DEF KnownAccepted
<1>1. /\ j \notin Elems(queue) \cup Elems(processing) \cup Elems(orphans)
      /\ \A t \in Tasks : tjob[t] # j
  BY DEF KnownAccepted, Known
<1>2. /\ queue \in Seq(Jobs) /\ processing \in Seq(Jobs) /\ orphans \in Seq(Jobs)
      /\ tjob \in [Tasks -> Jobs \cup {NoJob}] /\ j # NoJob
  BY PipelineAssumption DEF TypeOK
<1> USE DEF Known, requests, database, redis, process, ghosts
<1>3. ASSUME NEW k \in Jobs, Request(k) \/ Refuse(k) \/ Abandon(k) \/ DeleteJob(k)
      PROVE  Accepted(j)'
  <2>1. queue' # queue
    BY <1>1, <1>3, RequestLists
  <2>2. Push(k)
    BY <1>3, <2>1, RequestLists
  <2>3. j \in Elems(queue')
    BY <1>1, <2>2 DEF Push
  <2>4. j = k
    BY <1>1, <2>2, <2>3, PushLists
  <2>5. QED
    BY <2>2, <2>4 DEF Push, Submit, Accepted, TypeOK
<1>4. ASSUME NEW t \in Tasks, \/ Process(t) \/ Cancel(t) \/ DbError(t) \/ RedisError(t)
                              \/ EndTaskWithoutLrem(t)
      PROVE  FALSE
  <2>1. Elems(processing') \subseteq Elems(processing)
    BY <1>4, TaskLists, EndTaskLists
  <2>2. \A u \in Tasks : tjob'[u] # j
    BY <1>1, <1>2, <1>4, TaskLists
  <2>3. QED
    BY <1>1, <1>4, <2>1, <2>2, TaskLists
<1>5. ASSUME NEW t \in Tasks, Pop(t)
      PROVE  FALSE
  BY <1>1, <1>2, <1>5, PopLists
<1>6. ~StartWorker
  BY <1>1 DEF StartWorker
<1>7. ~Requeue
  BY <1>1, RequeueLists
<1>8. ~Discard
  BY <1>1 DEF Discard, Elems
<1>9. ~Crash
  BY <1>1, <1>2 DEF Crash, Elems
<1>10. ~(LeaveLoop \/ Exit \/ RecoveryFails \/ Stop \/ ReapSlot \/ \E i \in Inputs : ExpireCache(i))
  BY <1>1, <1>2 DEF LeaveLoop, Exit, RecoveryFails, Stop, ReapSlot, ExpireCache, Elems
<1>11. ~UNCHANGED vars
  BY <1>1 DEF vars
<1>12. QED
  BY <1>3, <1>4, <1>5, <1>6, <1>7, <1>8, <1>9, <1>10, <1>11 DEF Next, Loop

\* A task touches the row of its own job only, and never reopens it.
LEMMA TaskRows ==
  ASSUME TypeOK, TasksInv, NEW t \in Tasks,
         Process(t) \/ Cancel(t) \/ DbError(t) \/ RedisError(t) \/ EndTaskWithoutLrem(t)
  PROVE  /\ \A k \in Jobs : k # tjob[t] => row'[k] = row[k]
         /\ \A k \in Jobs : ~Open(k) => ~Open(k)'
         /\ unrecorded \subseteq unrecorded'
         /\ tjob[t] \in Jobs
         /\ \A u \in Tasks \ {t} : tpc'[u] = tpc[u] /\ tjob'[u] = tjob[u]
<1>1. tpc[t] # "idle" /\ tjob[t] \in Jobs
  <2>1. tpc[t] # "idle"
    BY DEF Process, ReadRow, AcquireSlot, SlotTimeout, MarkRow, MarkHash, Complete,
           EngineError, Settle, Publish, FillCache, ReleaseSlot, Notify, FailRow, FailRefund,
           FailHash, EndTask, SetHash, Task, Cancel, DbError, RedisError, Raise,
           EndTaskWithoutLrem, UsesDatabase, UsesRedis
  <2>2. QED
    BY <2>1 DEF TypeOK, TasksInv
<1>2. /\ unrecorded \subseteq unrecorded'
      /\ \A u \in Tasks \ {t} : tpc'[u] = tpc[u] /\ tjob'[u] = tjob[u]
  BY DEF Process, ReadRow, AcquireSlot, SlotTimeout, MarkRow, MarkHash, Complete,
         EngineError, Settle, Publish, FillCache, ReleaseSlot, Notify, FailRow, FailRefund,
         FailHash, EndTask, SetHash, Task, Cancel, DbError, RedisError, Raise,
         EndTaskWithoutLrem, Sent, Resent, TypeOK, ghosts
<1>3. CASE row' = row
  BY <1>1, <1>2, <1>3 DEF Open
<1>4. CASE MarkRow(t)
  BY <1>1, <1>2, <1>4 DEF MarkRow, RowWith, Open, TypeOK
<1>5. CASE Complete(t)
  BY <1>1, <1>2, <1>5 DEF Complete, RowWith, Open, TypeOK
<1>6. CASE FailRow(t)
  BY <1>1, <1>2, <1>6 DEF FailRow, RowWith, Open, TypeOK
<1>7. row' = row \/ MarkRow(t) \/ Complete(t) \/ FailRow(t)
  BY DEF Process, ReadRow, AcquireSlot, SlotTimeout, MarkHash, EngineError, Settle, Publish,
         FillCache, ReleaseSlot, Notify, FailRefund, FailHash, EndTask, SetHash, Cancel,
         DbError, RedisError, Raise, EndTaskWithoutLrem, database
<1>8. QED
  BY <1>3, <1>4, <1>5, <1>6, <1>7

\* Until it is accepted, nobody else changes the row of a copy.
LEMMA CopiedStep ==
  ASSUME TypeOK, TasksInv, KnownAccepted, CopiedInv, [Next]_vars
  PROVE  CopiedInv'
<1> SUFFICES ASSUME NEW j \in Jobs, submit'[j] = "copied"
             PROVE  row'[j] \in {"completed", "none"}
  BY DEF CopiedInv
<1> USE DEF CopiedInv, TypeOK, Submit, requests, database, redis, process, ghosts
<1>1. ASSUME NEW k \in Jobs, Request(k) \/ Refuse(k) \/ Abandon(k) \/ DeleteJob(k)
      PROVE  row'[j] \in {"completed", "none"}
  BY <1>1 DEF Request, ReadCache, InsertQueued, InsertCached, Charge, CreditsExhausted,
              RemoveRefused, ChargeWithoutRow, HashQueued, Push, Refuse, Abandon, DeleteJob
<1>2. ASSUME NEW t \in Tasks, \/ Process(t) \/ Cancel(t) \/ DbError(t) \/ RedisError(t)
                              \/ EndTaskWithoutLrem(t)
      PROVE  row'[j] \in {"completed", "none"}
  <2>1. submit'[j] = submit[j]
    BY <1>2, TaskLists
  <2>2. tjob[t] # j
    BY <2>1 DEF KnownAccepted, Known, Accepted
  <2>3. row'[j] = row[j]
    BY <1>2, <2>2, TaskRows
  <2>4. QED
    BY <2>1, <2>3
<1>3. CASE Loop \/ RecoveryFails \/ Stop \/ Crash \/ ReapSlot \/ (\E t \in Tasks : Pop(t))
           \/ \E i \in Inputs : ExpireCache(i)
  BY <1>3 DEF Loop, StartWorker, Requeue, Discard, LeaveLoop, Exit, RecoveryFails, Stop, Crash, InFlight,
              ReapSlot, Pop, ExpireCache
<1>4. CASE UNCHANGED vars
  BY <1>4 DEF vars
<1>5. QED
  BY <1>1, <1>2, <1>3, <1>4 DEF Next

\* What a task's own step does to RecordedInv: it gets among the Recorded points by
\* writing a final status, by finding one, or without having been able to.
LEMMA RecordedTaskStep ==
  ASSUME TypeOK, TasksInv, RecordedInv, NEW t \in Tasks,
         Process(t) \/ Cancel(t) \/ DbError(t) \/ RedisError(t) \/ EndTaskWithoutLrem(t),
         tpc'[t] \in Recorded
  PROVE  (~Open(tjob[t]) \/ tjob[t] \in unrecorded)'
<1>1. tjob[t] \in Jobs /\ unrecorded \subseteq unrecorded'
  BY TaskRows
<1>2. tjob'[t] = tjob[t]
  <2>1. tjob' = tjob \/ tpc'[t] = "idle"
    BY DEF Process, ReadRow, AcquireSlot, SlotTimeout, MarkRow, MarkHash, Complete,
           EngineError, Settle, Publish, FillCache, ReleaseSlot, Notify, FailRow, FailRefund,
           FailHash, EndTask, SetHash, Task, Cancel, DbError, RedisError, Raise,
           EndTaskWithoutLrem, TypeOK
  <2>2. QED
    BY <2>1 DEF Recorded
<1>3. CASE tpc[t] \in Recorded
  BY <1>1, <1>2, <1>3, TaskRows DEF RecordedInv
<1>4. CASE tpc[t] \notin Recorded
  <2> USE DEF TypeOK, Recorded, Open
  <2>1. CASE ReadRow(t)
    BY <1>1, <1>2, <2>1 DEF ReadRow, Task, Terminal, database
  <2>2. CASE Complete(t) \/ FailRow(t)
    BY <1>1, <1>2, <2>2 DEF Complete, FailRow, RowWith, Task
  <2>3. CASE Cancel(t)
    BY <1>2, <2>3 DEF Cancel
  <2>4. ASSUME DbError(t) \/ RedisError(t)
        PROVE  tpc[t] = "last_row" /\ tpc'[t] = "lrem" /\ DbError(t)
    <3>1. tpc[t] \in UsesDatabase \cup UsesRedis /\ tpc'[t] = OnError(tpc[t])
      BY <2>4 DEF DbError, RedisError, Raise
    <3>2. \A p \in (UsesDatabase \cup UsesRedis) \ Recorded :
            OnError(p) \in Recorded => p = "last_row" /\ OnError(p) = "lrem"
      BY DEF OnError, UsesDatabase, UsesRedis, Working, FirstFail, LastFail
    <3>3. tpc[t] = "last_row" /\ tpc'[t] = "lrem"
      BY <1>4, <3>1, <3>2
    <3>4. QED
      BY <2>4, <3>3 DEF RedisError, Raise, UsesRedis
  <2>5. CASE DbError(t) \/ RedisError(t)
    BY <1>2, <2>4, <2>5 DEF DbError
  <2>6. ~(\/ AcquireSlot(t) \/ SlotTimeout(t) \/ MarkRow(t) \/ MarkHash(t) \/ EngineError(t)
          \/ Settle(t) \/ Publish(t) \/ FillCache(t) \/ ReleaseSlot(t) \/ Notify(t)
          \/ FailRefund(t) \/ FailHash(t) \/ EndTask(t) \/ EndTaskWithoutLrem(t))
    BY <1>4 DEF AcquireSlot, SlotTimeout, MarkRow, MarkHash, EngineError, Settle, Publish,
                FillCache, ReleaseSlot, Notify, FailRefund, FailHash, SetHash, Task,
                EndTask, EndTaskWithoutLrem
  <2>7. QED
    BY <2>1, <2>2, <2>3, <2>5, <2>6 DEF Process
<1>5. QED
  BY <1>3, <1>4

\* What one task has ended, no request and no other task opens again.
LEMMA RecordedStep ==
  ASSUME TypeOK, TasksInv, KnownAccepted, RecordedInv, [Next]_vars
  PROVE  RecordedInv'
<1> SUFFICES ASSUME NEW u \in Tasks, tpc'[u] \in Recorded
             PROVE  (~Open(tjob[u]) \/ tjob[u] \in unrecorded)'
  BY DEF RecordedInv
<1>1. ASSUME NEW j \in Jobs, Request(j) \/ Refuse(j) \/ Abandon(j) \/ DeleteJob(j)
      PROVE  (~Open(tjob[u]) \/ tjob[u] \in unrecorded)'
  <2>1. /\ tpc' = tpc /\ tjob' = tjob /\ unrecorded' = unrecorded
        /\ \A k \in Jobs \ {j} : row'[k] = row[k]
    BY <1>1, RequestLists
  <2>2. tpc[u] # "idle" /\ tjob[u] \in Jobs
    BY <2>1 DEF TypeOK, TasksInv, Recorded
  <2>3. Accepted(tjob[u])
    BY <2>2 DEF KnownAccepted, Known
  <2>4. ~Open(tjob[u]) => ~Open(tjob[u])'
    BY <1>1, <2>1, <2>2, <2>3
       DEF Request, ReadCache, InsertQueued, InsertCached, Charge, CreditsExhausted,
           RemoveRefused, ChargeWithoutRow, HashQueued, Push, Refuse, Abandon, DeleteJob,
           Submit, Accepted, Open, TypeOK, database
  <2>5. QED
    BY <2>1, <2>4 DEF RecordedInv
<1>2. ASSUME NEW t \in Tasks, \/ Process(t) \/ Cancel(t) \/ DbError(t) \/ RedisError(t)
                              \/ EndTaskWithoutLrem(t)
      PROVE  (~Open(tjob[u]) \/ tjob[u] \in unrecorded)'
  <2>1. CASE u = t
    BY <1>2, <2>1, RecordedTaskStep
  <2>2. CASE u # t
    <3>1. tpc'[u] = tpc[u] /\ tjob'[u] = tjob[u]
      BY <1>2, <2>2, TaskRows
    <3>2. tjob[u] \in Jobs
      BY <3>1 DEF TypeOK, TasksInv, Recorded
    <3>3. QED
      BY <1>2, <3>1, <3>2, TaskRows DEF RecordedInv
  <2>3. QED
    BY <2>1, <2>2
<1>3. ASSUME NEW t \in Tasks, Pop(t)
      PROVE  (~Open(tjob[u]) \/ tjob[u] \in unrecorded)'
  <2>1. u # t
    BY <1>3 DEF Pop, Recorded, TypeOK
  <2>2. QED
    BY <1>3, <2>1 DEF Pop, Sent, Resent, RecordedInv, Open, TypeOK, database, ghosts
<1>4. CASE Loop \/ RecoveryFails \/ Stop \/ Crash \/ ReapSlot \/ \E i \in Inputs : ExpireCache(i)
  BY <1>4 DEF Loop, StartWorker, Requeue, Discard, LeaveLoop, Exit, RecoveryFails, Stop, Crash, ReapSlot,
              ExpireCache, Sent, Resent, PushResent, RecordedInv, Open, Recorded,
              database, process, ghosts
<1>5. CASE UNCHANGED vars
  BY <1>5 DEF vars, RecordedInv, Open, database, process, ghosts
<1>6. QED
  BY <1>1, <1>2, <1>3, <1>4, <1>5 DEF Next

\* Nothing leaves the queue while recovery runs.
LEMMA RecoveryStep ==
  ASSUME TypeOK, TasksInv, RecoveryInv, [Next]_vars
  PROVE  RecoveryInv'
<1>1. ASSUME NEW j \in Jobs, Request(j) \/ Refuse(j) \/ Abandon(j) \/ DeleteJob(j)
      PROVE  RecoveryInv'
  <2>1. worker' = worker /\ orphans' = orphans /\ processing' = processing
    BY <1>1, RequestLists
  <2>2. Elems(queue) \subseteq Elems(queue')
    BY <1>1, RequestLists, PushLists
  <2>3. QED
    BY <2>1, <2>2 DEF RecoveryInv, Elems
<1>2. ASSUME NEW t \in Tasks, \/ Process(t) \/ Cancel(t) \/ DbError(t) \/ RedisError(t)
                              \/ EndTaskWithoutLrem(t)
      PROVE  RecoveryInv'
  <2>1. tjob[t] \in Jobs
    BY <1>2, TaskRows
  <2>2. worker \notin {"recover", "discard"}
    BY <2>1, PipelineAssumption DEF TasksInv
  <2>3. QED
    BY <1>2, <2>2, TaskLists DEF RecoveryInv
<1>3. CASE Requeue
  <2>1. worker = "recover" /\ worker' = IF Len(orphans) = 1 THEN "discard" ELSE "recover"
    BY <1>3 DEF Requeue
  <2>2. processing' = processing
    BY <1>3, RequeueLists
  <2>3. PICK o \in Jobs : /\ Elems(orphans) = Elems(orphans') \cup {o}
                          /\ Elems(queue') = Elems(queue) \cup {o}
    BY <1>3, RequeueLists
  <2>4. Elems(processing) \subseteq Elems(queue') \cup Elems(orphans')
    BY <2>1, <2>3 DEF RecoveryInv
  <2>5. CASE Len(orphans) = 1
    BY <1>3, <2>1, <2>2, <2>4, <2>5, RequeueLists DEF RecoveryInv
  <2>6. CASE Len(orphans) # 1
    BY <1>3, <2>1, <2>2, <2>4, <2>6, RequeueLists DEF RecoveryInv
  <2>7. QED
    BY <2>5, <2>6
<1>4. CASE StartWorker
  BY <1>4 DEF StartWorker, RecoveryInv, redis
<1>5. CASE Discard \/ LeaveLoop \/ Exit \/ RecoveryFails \/ Stop \/ Crash
  BY <1>5 DEF Discard, LeaveLoop, Exit, RecoveryFails, Stop, Crash, RecoveryInv
<1>6. ASSUME NEW t \in Tasks, Pop(t)
      PROVE  RecoveryInv'
  BY <1>6 DEF Pop, RecoveryInv
<1>7. CASE ReapSlot \/ (\E i \in Inputs : ExpireCache(i)) \/ UNCHANGED vars
  BY <1>7 DEF ReapSlot, ExpireCache, RecoveryInv, process, redis, vars
<1>8. QED
  BY <1>1, <1>2, <1>3, <1>4, <1>5, <1>6, <1>7 DEF Next, Loop

\* The steps that take a job out of a list: the LREM of a task, which has
\* ended it, the DEL of recovery, which has pushed it, and the pop, which
\* parks it.
LEMMA LostStep ==
  ASSUME IInv, [Next]_vars
  PROVE  NoJobLost'
<1> USE DEF IInv
<1> SUFFICES ASSUME NEW j \in Jobs \ unrecorded', Accepted(j)', Open(j)'
             PROVE  Listed(j)'
  BY DEF NoJobLost, Kept
<1>1. ASSUME Accepted(j), Open(j), j \notin unrecorded
      PROVE  Listed(j)
  BY <1>1 DEF NoJobLost, Kept
<1>2. queue \in Seq(Jobs) /\ processing \in Seq(Jobs)
  BY DEF TypeOK
<1>3. ASSUME NEW k \in Jobs, Request(k) \/ Refuse(k) \/ Abandon(k) \/ DeleteJob(k)
      PROVE  Listed(j)'
  <2>1. /\ processing' = processing /\ unrecorded' = unrecorded
        /\ Elems(queue) \subseteq Elems(queue')
    BY <1>3, RequestLists, PushLists
  <2>2. CASE Push(k) /\ j = k
    BY <2>2, PushLists DEF Listed
  <2>3. CASE ~(Push(k) /\ j = k)
    <3>1. Accepted(j) /\ Open(j)
      BY <1>3, <2>3
         DEF Request, ReadCache, InsertQueued, InsertCached, Charge, CreditsExhausted,
             RemoveRefused, ChargeWithoutRow, HashQueued, Push, Refuse, Abandon, DeleteJob,
             Submit, Accepted, Open, TypeOK, CopiedInv, database, requests
    <3>2. QED
      BY <1>1, <2>1, <3>1 DEF Listed, Elems
  <2>4. QED
    BY <2>2, <2>3
<1>4. ASSUME NEW t \in Tasks, \/ Process(t) \/ Cancel(t) \/ DbError(t) \/ RedisError(t)
                              \/ EndTaskWithoutLrem(t)
      PROVE  Listed(j)'
  <2>1. Accepted(j) /\ Open(j) /\ j \notin unrecorded
    BY <1>4, TaskLists, TaskRows DEF Accepted
  <2>2. CASE EndTask(t)
    <3>1. j # tjob[t]
      BY <2>1, <2>2 DEF EndTask, RecordedInv, Recorded
    <3>2. QED
      BY <1>1, <2>1, <2>2, <3>1, EndTaskLists DEF Listed
  <2>3. CASE ~EndTask(t)
    BY <1>1, <1>4, <2>1, <2>3, TaskLists DEF Listed
  <2>4. QED
    BY <2>2, <2>3
<1>5. ASSUME submit' = submit \/ Crash, row' = row, unrecorded' = unrecorded
      PROVE  Listed(j)
  BY <1>1, <1>5 DEF Accepted, Open, Crash, InFlight, TypeOK
<1>6. ASSUME NEW t \in Tasks, Pop(t)
      PROVE  Listed(j)'
  <2>1. Listed(j)
    BY <1>5, <1>6, PopLists
  <2>2. QED
    BY <1>6, <2>1, PopLists DEF Listed
<1>7. CASE Requeue
  BY <1>5, <1>7, RequeueLists DEF Listed
<1>8. CASE Discard
  <2>1. Listed(j)
    BY <1>5, <1>8 DEF Discard, requests, database, ghosts
  <2>2. Elems(processing) \subseteq Elems(queue) /\ queue' = queue
    BY <1>8 DEF Discard, RecoveryInv
  <2>3. QED
    BY <2>1, <2>2 DEF Listed
<1>9. CASE StartWorker \/ LeaveLoop \/ Exit \/ RecoveryFails \/ Stop \/ Crash \/ ReapSlot
             \/ (\E i \in Inputs : ExpireCache(i)) \/ UNCHANGED vars
  BY <1>5, <1>9 DEF StartWorker, LeaveLoop, Exit, RecoveryFails, Stop, Crash, ReapSlot, ExpireCache,
                    Listed, vars, requests, database, redis, ghosts
<1>10. QED
  BY <1>3, <1>4, <1>6, <1>7, <1>8, <1>9 DEF Next, Loop
\* What was doubled stays so.
LEMMA DoubledStep ==
  ASSUME TypeOK, [Next]_vars, ~doubled'
  PROVE  ~doubled
<1> USE DEF TypeOK, Sent, Resent, PushResent, Fault, ghosts
<1>1. ASSUME NEW k \in Jobs, Request(k) \/ Refuse(k) \/ Abandon(k) \/ DeleteJob(k)
      PROVE  ~doubled
  BY <1>1 DEF Request, ReadCache, InsertQueued, InsertCached, Charge, CreditsExhausted,
              RemoveRefused, ChargeWithoutRow, HashQueued, Push, Refuse, Abandon, DeleteJob
<1>2. ASSUME NEW t \in Tasks, \/ Pop(t) \/ Process(t) \/ Cancel(t)
                              \/ DbError(t) \/ RedisError(t) \/ EndTaskWithoutLrem(t)
      PROVE  ~doubled
  BY <1>2 DEF Pop, Process, ReadRow, AcquireSlot, SlotTimeout, MarkRow, MarkHash, Complete,
              EngineError, Settle, Publish, FillCache, ReleaseSlot, Notify, FailRow,
              FailRefund, FailHash, EndTask, SetHash, Task, Cancel, DbError, RedisError,
              Raise, EndTaskWithoutLrem
<1>3. CASE Loop \/ RecoveryFails \/ Stop \/ Crash \/ ReapSlot \/ \E i \in Inputs : ExpireCache(i)
  BY <1>3 DEF Loop, StartWorker, Requeue, Discard, LeaveLoop, Exit, RecoveryFails, Stop, Crash, ReapSlot,
              ExpireCache
<1>4. CASE UNCHANGED vars
  BY <1>4 DEF vars
<1>5. QED
  BY <1>1, <1>2, <1>3, <1>4 DEF Next

\* Where a job comes into a list it was nowhere, or has just left another one.
LEMMA UniqueStep ==
  ASSUME TypeOK, TasksInv, KnownAccepted, RecoveryInv, UniqueInv, [Next]_vars
  PROVE  UniqueInv'
<1> USE DEF UniqueInv, ClaimedOnce
<1> SUFFICES ASSUME ~doubled'
             PROVE  /\ Distinct(queue')
                    /\ \A t \in Tasks : tjob'[t] \notin Elems(queue')
                    /\ ClaimedOnce'
                    /\ worker' = "recover" =>
                         Distinct(orphans') /\ Elems(orphans') \cap Elems(queue') = {}
                    /\ worker' \notin {"recover", "discard"} =>
                         Distinct(processing') /\ Elems(processing') \cap Elems(queue') = {}
  BY DEF Elems, Distinct
<1>1. /\ queue \in Seq(Jobs) /\ processing \in Seq(Jobs) /\ orphans \in Seq(Jobs)
      /\ tjob \in [Tasks -> Jobs \cup {NoJob}] /\ NoJob \notin Jobs
  BY PipelineAssumption DEF TypeOK
<1>2. /\ Elems(queue) \subseteq Jobs /\ Elems(processing) \subseteq Jobs
      /\ Elems(orphans) \subseteq Jobs
  BY <1>1, ElementOfSeq, LenProperties DEF Elems
<1> USE DEF requests, database, redis, process, ghosts
<1>3. ASSUME NEW k \in Jobs, Request(k) \/ Refuse(k) \/ Abandon(k) \/ DeleteJob(k)
      PROVE  UniqueInv'
  <2>1. UNCHANGED <<worker, orphans, processing, tjob>>
    BY <1>3, RequestLists
  <2>2. ~doubled
    BY DoubledStep
  <2>3. CASE queue' = queue
    BY <2>1, <2>2, <2>3
  <2>4. CASE Push(k)
    <3>1. queue' = Append(queue, k)
      BY <2>4 DEF Push, PushResent
    <3>2. ~Known(k)
      BY <2>4 DEF Push, Submit, KnownAccepted, Accepted
    <3>3. Distinct(queue')
      BY <1>1, <2>2, <3>1, <3>2, DistinctAppend DEF Known
    <3>4. Elems(queue') = Elems(queue) \cup {k}
      BY <2>4, PushLists
    <3>5. QED
      BY <2>1, <2>2, <3>2, <3>3, <3>4 DEF Known
  <2>5. QED
    BY <1>3, <2>3, <2>4, RequestLists
<1>4. ASSUME NEW t \in Tasks, \/ Process(t) \/ Cancel(t) \/ DbError(t) \/ RedisError(t)
                              \/ EndTaskWithoutLrem(t)
      PROVE  UniqueInv'
  <2>1. /\ queue' = queue /\ orphans' = orphans /\ worker' = worker
        /\ processing' = processing \/ EndTask(t)
        /\ tjob' = tjob \/ tjob' = [tjob EXCEPT ![t] = NoJob]
    BY <1>4, TaskLists
  <2>2. ~doubled
    BY DoubledStep
  <2>3. ClaimedOnce' /\ \A u \in Tasks : tjob'[u] \notin Elems(queue)
    BY <1>1, <1>2, <2>1, <2>2
  <2>4. worker \notin {"recover", "discard"}
    BY <1>1, <1>4, TaskRows DEF TasksInv
  <2>5. Distinct(processing') /\ Elems(processing') \subseteq Elems(processing)
    <3>1. CASE processing' = processing
      BY <2>2, <2>4, <3>1
    <3>2. CASE EndTask(t)
      <4> DEFINE once == Without(processing, tjob[t])
      <4>1. once \in Seq(Jobs) /\ Distinct(once)
        BY <1>1, <2>2, <2>4, ElemsWithout, DistinctWithout
      <4>2. processing' = once \/ processing' = Without(once, tjob[t])
        BY <3>2 DEF EndTask
      <4> HIDE DEF once
      <4>3. Distinct(processing')
        BY <4>1, <4>2, DistinctWithout
      <4>4. QED
        BY <3>2, <4>3, EndTaskLists
    <3>3. QED
      BY <2>1, <3>1, <3>2
  <2>6. QED
    BY <2>1, <2>2, <2>3, <2>4, <2>5
<1>5. ASSUME NEW t \in Tasks, Pop(t)
      PROVE  UniqueInv'
  <2> DEFINE h == Head(queue)
  <2>1. /\ queue # <<>> /\ queue' = Tail(queue) /\ processing' = Append(processing, h)
        /\ tjob' = tjob \/ tjob' = [tjob EXCEPT ![t] = h]
        /\ ~doubled /\ worker \notin {"recover", "discard"}
        /\ worker' \notin {"recover", "discard"}
    BY <1>5 DEF Pop, Sent, Resent
  <2>2. h \in Jobs /\ Elems(queue) = {h} \cup Elems(queue')
    BY <1>1, <2>1, ElemsTail
  <2>3. Distinct(queue') /\ h \notin Elems(queue')
    BY <1>1, <2>1, DistinctTail
  <2>4. h \notin Elems(processing)
    BY <2>1, <2>2
  <2>5. Distinct(processing') /\ Elems(processing') = Elems(processing) \cup {h}
    BY <1>1, <2>1, <2>2, <2>4, DistinctAppend, ElemsAppend
  <2>6. \A u \in Tasks : tjob[u] # h
    BY <2>1, <2>2
  <2> HIDE DEF h
  <2>7. ClaimedOnce' /\ \A u \in Tasks : tjob'[u] \notin Elems(queue')
    BY <1>1, <2>1, <2>2, <2>3, <2>6
  <2>8. QED
    BY <2>1, <2>2, <2>3, <2>5, <2>7
<1>6. CASE StartWorker
  BY <1>6 DEF StartWorker
<1>7. CASE Requeue
  <2> DEFINE n == Len(orphans)
             o == orphans[n]
  <2>1. /\ worker = "recover" /\ orphans # <<>> /\ ~doubled
        /\ queue' = <<o>> \o queue /\ orphans' = SubSeq(orphans, 1, n - 1)
        /\ worker' \in {"recover", "discard"} /\ tjob' = tjob /\ tpc' = tpc
    BY <1>7 DEF Requeue, RecoveryInv, Sent, PushResent
  <2>2. n \in Nat \ {0} /\ o \in Jobs /\ o \in Elems(orphans)
    BY <1>1, <2>1, EmptySeq, LenProperties, ElementOfSeq DEF Elems
  <2>3. Distinct(orphans') /\ o \notin Elems(orphans')
    BY <1>1, <2>1, DistinctFront
  <2>4. Elems(orphans') \subseteq Elems(orphans)
    BY <1>7, RequeueLists
  <2>5. Distinct(queue') /\ Elems(queue') = Elems(queue) \cup {o}
    <3> DEFINE one == <<o>>
    <3>1. o \notin Elems(queue)
      BY <2>1, <2>2
    <3>2. one \in Seq(Jobs) /\ Elems(one) = {o} /\ Distinct(one)
      BY <2>2 DEF Elems, Distinct
    <3>3. queue' = one \o queue
      BY <2>1
    <3> HIDE DEF one, o
    <3>4. Distinct(queue) /\ queue \in Seq(Jobs) /\ Elems(one) \cap Elems(queue) = {}
      BY <1>1, <2>1, <3>1, <3>2
    <3>5. Distinct(one \o queue)
      BY <3>2, <3>4, DistinctConcat
    <3>6. Elems(one \o queue) = Elems(one) \cup Elems(queue)
      BY <3>2, <3>4, ElemsConcat
    <3>7. QED
      BY <3>2, <3>3, <3>5, <3>6
  <2>6. \A u \in Tasks : tjob[u] = NoJob
    BY <2>1 DEF TasksInv
  <2> HIDE DEF o, n
  <2>7. QED
    BY <1>1, <2>1, <2>2, <2>3, <2>4, <2>5, <2>6
<1>8. CASE Discard
  BY <1>8 DEF Discard, Distinct, Elems
<1>9. CASE RecoveryFails \/ Crash
  <2>1. /\ ~doubled /\ ~HalfRecovered /\ worker' \in {"down", "dead"}
        /\ queue' = queue /\ processing' = processing
        /\ tjob' = tjob \/ tjob' = [t \in Tasks |-> NoJob]
    BY <1>9, Zenon DEF RecoveryFails, Crash, TypeOK
  <2>2. Distinct(processing) /\ Elems(processing) \cap Elems(queue) = {}
    BY <2>1 DEF HalfRecovered
  <2>3. ClaimedOnce' /\ \A u \in Tasks : tjob'[u] \notin Elems(queue)
    BY <1>1, <1>2, <2>1
  <2>4. QED
    BY <2>1, <2>2, <2>3
<1>10. CASE LeaveLoop \/ Exit \/ Stop \/ ReapSlot
             \/ (\E i \in Inputs : ExpireCache(i)) \/ UNCHANGED vars
  BY <1>10 DEF LeaveLoop, Exit, RecoveryFails, Stop, ReapSlot, ExpireCache, vars
<1>11. QED
  BY <1>3, <1>4, <1>5, <1>6, <1>7, <1>8, <1>9, <1>10 DEF Next, Loop
\* A request that was accepted does nothing more; its job may be deleted.
LEMMA RequestBooks ==
  ASSUME TypeOK, NEW k \in Jobs, Request(k) \/ Refuse(k) \/ Abandon(k) \/ DeleteJob(k)
  PROVE  /\ \A j \in Jobs \ {k} : usage'[j] = usage[j] /\ row'[j] = row[j]
         /\ Accepted(k) => usage'[k] = usage[k] /\ row'[k] \in {row[k], "none"}
         /\ \/ usage'[k] = usage[k] /\ row'[k] \in {row[k], "none"}
            \/ usage'[k] = usage[k] /\ submit[k] \in {"miss", "hit"}
            \/ usage'[k] \in {"reserved", "completed"} /\ row' = row
BY DEF Request, ReadCache, InsertQueued, InsertCached, Charge, CreditsExhausted, RemoveRefused,
       ChargeWithoutRow, HashQueued, Push, Refuse, Abandon, DeleteJob, Submit, Accepted, TypeOK,
       requests, database, redis, process, ghosts

\* A task changes the usage record of its own job only, and only if there is one.
LEMMA TaskBooks ==
  ASSUME TypeOK, TasksInv, NEW t \in Tasks,
         Process(t) \/ Cancel(t) \/ DbError(t) \/ RedisError(t) \/ EndTaskWithoutLrem(t)
  PROVE  /\ \A k \in Jobs : k # tjob[t] => usage'[k] = usage[k]
         /\ \A k \in Jobs : usage'[k] = "none" <=> usage[k] = "none"
         /\ usage' = usage \/ Settle(t) \/ FailRefund(t)
         /\ row' = row \/ MarkRow(t) \/ Complete(t) \/ FailRow(t)
<1>1. usage' = usage \/ Settle(t) \/ FailRefund(t)
  BY DEF Process, ReadRow, AcquireSlot, SlotTimeout, MarkRow, MarkHash, Complete, EngineError,
         Publish, FillCache, ReleaseSlot, Notify, FailRow, FailHash, EndTask, SetHash, Cancel,
         DbError, RedisError, Raise, EndTaskWithoutLrem, database
<1>2. row' = row \/ MarkRow(t) \/ Complete(t) \/ FailRow(t)
  BY DEF Process, ReadRow, AcquireSlot, SlotTimeout, MarkHash, EngineError, Settle, Publish,
         FillCache, ReleaseSlot, Notify, FailRefund, FailHash, EndTask, SetHash, Cancel,
         DbError, RedisError, Raise, EndTaskWithoutLrem, database
<1>3. tjob[t] \in Jobs
  BY TaskRows
<1>4. CASE Settle(t) \/ FailRefund(t)
  BY <1>2, <1>3, <1>4 DEF Settle, FailRefund, UsageWith, TypeOK
<1>5. QED
  BY <1>1, <1>2, <1>4

\* Charge makes the record, in the only step past which a request counts as
\* charged.
LEMMA ChargedStep ==
  ASSUME TypeOK, TasksInv, ChargedInv, [Next]_vars
  PROVE  ChargedInv'
<1> USE DEF ChargedInv
<1>1. ASSUME NEW k \in Jobs, Request(k) \/ Refuse(k) \/ Abandon(k) \/ DeleteJob(k)
      PROVE  ChargedInv'
  BY <1>1 DEF Request, ReadCache, InsertQueued, InsertCached, Charge, CreditsExhausted,
              RemoveRefused, ChargeWithoutRow, HashQueued, Push, Refuse, Abandon, DeleteJob,
              Submit, InFlight, TypeOK, requests, database
<1>2. ASSUME NEW t \in Tasks, \/ Process(t) \/ Cancel(t) \/ DbError(t) \/ RedisError(t)
                              \/ EndTaskWithoutLrem(t)
      PROVE  ChargedInv'
  BY <1>2, TaskLists, TaskBooks
<1>3. CASE Loop \/ RecoveryFails \/ Stop \/ Crash \/ ReapSlot \/ (\E t \in Tasks : Pop(t))
           \/ \E i \in Inputs : ExpireCache(i)
  BY <1>3 DEF Loop, StartWorker, Requeue, Discard, LeaveLoop, Exit, RecoveryFails, Stop, Crash, InFlight,
              ReapSlot, Pop, ExpireCache, TypeOK, requests, database
<1>4. CASE UNCHANGED vars
  BY <1>4 DEF vars, requests, database
<1>5. QED
  BY <1>1, <1>2, <1>3, <1>4 DEF Next

\* What a task does to its own job: the result is stored over a row that is not
\* failed, and credits go back for one that is.
LEMMA PaidTaskStep ==
  ASSUME TypeOK, TasksInv, ChargedInv, PaidInv, ~doubled, NEW t \in Tasks,
         Process(t) \/ Cancel(t) \/ DbError(t) \/ RedisError(t) \/ EndTaskWithoutLrem(t)
  PROVE  LET j == tjob[t]
         IN  /\ usage'[j] \in {"refunded", "waived"} => row'[j] \in {"failed", "none"}
             /\ tpc'[t] \in BeforeResult =>
                  tjob'[t] = j /\ row'[j] \in {"queued", "processing", "none"}
             /\ tpc'[t] \in BeforeRefund => tjob'[t] = j /\ row'[j] \in {"failed", "none"}
             /\ tpc'[t] = "settle" => tjob'[t] = j /\ row'[j] \in {"completed", "none"}
<1> DEFINE j == tjob[t]
<1>1. j \in Jobs /\ row[j] \in Statuses
  BY TaskRows DEF TypeOK
<1> USE DEF PaidInv, BeforeResult, BeforeRefund, TypeOK
<1>2. CASE ReadRow(t)
  BY <1>1, <1>2 DEF ReadRow, Task, Terminal, Statuses, database
<1>3. CASE MarkRow(t)
  BY <1>1, <1>3 DEF MarkRow, RowWith, Task
<1>4. CASE Complete(t)
  BY <1>1, <1>4 DEF Complete, RowWith, Task
<1>5. CASE FailRow(t)
  BY <1>1, <1>5 DEF FailRow, RowWith, Task
<1>6. CASE Settle(t)
  BY <1>1, <1>6 DEF Settle, UsageWith, Task
<1>7. CASE FailRefund(t)
  BY <1>1, <1>7 DEF FailRefund, UsageWith, Task
<1>8. CASE \/ AcquireSlot(t) \/ SlotTimeout(t) \/ MarkHash(t) \/ EngineError(t) \/ Publish(t)
           \/ FillCache(t) \/ ReleaseSlot(t) \/ Notify(t) \/ FailHash(t)
  BY <1>1, <1>8 DEF AcquireSlot, SlotTimeout, MarkHash, EngineError, Publish, FillCache,
                    ReleaseSlot, Notify, FailHash, SetHash, Task, database
<1>9. CASE EndTask(t) \/ EndTaskWithoutLrem(t) \/ Cancel(t)
  BY <1>1, <1>9 DEF EndTask, EndTaskWithoutLrem, Cancel, database
<1>10. CASE DbError(t) \/ RedisError(t)
  <2>1. /\ tpc[t] \in UsesDatabase \cup UsesRedis /\ tpc'[t] = OnError(tpc[t])
        /\ row' = row /\ usage' = usage
    BY <1>10 DEF DbError, RedisError, Raise, database
  <2>2. \A p \in UsesDatabase \cup UsesRedis :
          OnError(p) \in {"last_row", "fail_row", "fail_release", "lrem"}
    BY DEF OnError, UsesDatabase, UsesRedis, Working, FirstFail, LastFail
  <2>3. QED
    BY <1>1, <2>1, <2>2
<1>11. QED
  BY <1>2, <1>3, <1>4, <1>5, <1>6, <1>7, <1>8, <1>9, <1>10 DEF Process

\* Nobody else has the job meanwhile.
LEMMA PaidStep ==
  ASSUME TypeOK, TasksInv, KnownAccepted, UniqueInv, ChargedInv, PaidInv, [Next]_vars
  PROVE  PaidInv'
<1> SUFFICES ASSUME ~doubled'
             PROVE  PaidInv'
  BY DEF PaidInv
<1>1. ~doubled
  BY DoubledStep
<1>2. \A t \in Tasks : tpc[t] # "idle" => tjob[t] \in Jobs /\ Accepted(tjob[t])
  BY DEF TypeOK, TasksInv, KnownAccepted, Known
<1> USE DEF PaidInv, BeforeResult, BeforeRefund
<1>3. ASSUME NEW k \in Jobs, Request(k) \/ Refuse(k) \/ Abandon(k) \/ DeleteJob(k)
      PROVE  PaidInv'
  <2>1. UNCHANGED <<tpc, tjob>>
    BY <1>3, RequestLists
  <2>2. \A j \in Jobs : Accepted(j) => row'[j] \in {row[j], "none"}
    BY <1>3, RequestBooks
  <2>3. \A j \in Jobs : usage'[j] \in {"refunded", "waived"} => row'[j] \in {"failed", "none"}
    BY <1>1, <1>3, RequestBooks DEF ChargedInv
  <2>4. \A t \in Tasks : tpc[t] # "idle" => row'[tjob[t]] \in {row[tjob[t]], "none"}
    BY <1>2, <2>2
  <2>5. QED
    BY <1>1, <2>1, <2>3, <2>4
<1>4. ASSUME NEW t \in Tasks, \/ Process(t) \/ Cancel(t) \/ DbError(t) \/ RedisError(t)
                              \/ EndTaskWithoutLrem(t)
      PROVE  PaidInv'
  <2>1. tjob[t] \in Jobs
    BY <1>4, TaskRows
  <2>2. \A k \in Jobs : k # tjob[t] => row'[k] = row[k] /\ usage'[k] = usage[k]
    BY <1>4, TaskRows, TaskBooks
  <2>3. ASSUME NEW u \in Tasks \ {t}, tpc'[u] # "idle"
        PROVE  /\ tpc'[u] = tpc[u] /\ tjob'[u] = tjob[u]
               /\ row'[tjob[u]] = row[tjob[u]]
    <3>1. tpc'[u] = tpc[u] /\ tjob'[u] = tjob[u]
      BY <1>4, TaskRows
    <3>2. tjob[u] # tjob[t] /\ tjob[u] \in Jobs
      BY <1>1, <1>2, <2>1, <2>3, <3>1, PipelineAssumption DEF UniqueInv, ClaimedOnce
    <3>3. QED
      BY <2>2, <3>1, <3>2
  <2>4. \A j \in Jobs : usage'[j] \in {"refunded", "waived"} => row'[j] \in {"failed", "none"}
    BY <1>1, <1>4, <2>1, <2>2, PaidTaskStep
  <2>5. QED
    BY <1>1, <1>4, <2>3, <2>4, PaidTaskStep
<1>5. ASSUME NEW t \in Tasks, Pop(t)
      PROVE  PaidInv'
  <2>1. UNCHANGED <<row, usage>>
    BY <1>5 DEF Pop, database
  <2>2. /\ \A u \in Tasks \ {t} : tpc'[u] = tpc[u] /\ tjob'[u] = tjob[u]
        /\ tpc'[t] \in {"idle", "read"}
    BY <1>5 DEF Pop, TypeOK
  <2>3. QED
    BY <1>1, <2>1, <2>2
<1>6. CASE Loop \/ RecoveryFails \/ Stop \/ Crash \/ ReapSlot \/ \E i \in Inputs : ExpireCache(i)
  BY <1>1, <1>6 DEF Loop, StartWorker, Requeue, Discard, LeaveLoop, Exit, RecoveryFails, Stop, Crash, ReapSlot,
                    ExpireCache, database, process
<1>7. CASE UNCHANGED vars
  BY <1>1, <1>7 DEF vars, database, process
<1>8. QED
  BY <1>3, <1>4, <1>5, <1>6, <1>7 DEF Next
-----------------------------------------------------------------------------
\* The invariant holds at the start.
LEMMA IInvInit == Init => IInv
<1> SUFFICES ASSUME Init
             PROVE  IInv
  OBVIOUS
<1>1. Elems(<<>>) = {}
  BY DEF Elems
<1>2. TypeOK
  <2>1. doubled \in BOOLEAN
    BY Zenon DEF Init
  <2>2. QED
    BY <2>1, PipelineAssumption, EmptySeq
       DEF Init, TypeOK, SubmitPCs, Statuses, Usages, TaskPCs
<1>3. TasksInv /\ CopiedInv /\ RecordedInv /\ RecoveryInv
  BY DEF Init, TasksInv, CopiedInv, RecordedInv, Recorded, RecoveryInv
<1>4. KnownAccepted
  BY <1>1, PipelineAssumption DEF Init, KnownAccepted, Known
<1>5. NoJobLost
  BY DEF Init, NoJobLost, Kept, Accepted
<1>6. UniqueInv
  BY <1>1, PipelineAssumption DEF Init, UniqueInv, ClaimedOnce, Distinct
<1>7. ChargedInv /\ PaidInv
  BY DEF Init, ChargedInv, PaidInv, BeforeResult, BeforeRefund
<1>8. QED
  BY <1>2, <1>3, <1>4, <1>5, <1>6, <1>7 DEF IInv

\* ... and is kept by every step,
LEMMA InvariantStep == IInv /\ [Next]_vars => IInv'
  BY TypeStep, TasksStep, KnownStep, CopiedStep, RecordedStep, RecoveryStep, LostStep,
     UniqueStep, ChargedStep, PaidStep DEF IInv

\* ... and is what the properties need.
LEMMA InvariantMeans == IInv => TypeOK /\ NoJobLost /\ ClaimedOnce /\ ResultsArePaid
<1>1. IInv => TypeOK /\ NoJobLost /\ ClaimedOnce
  BY DEF IInv, UniqueInv, ClaimedOnce
<1>2. IInv => ResultsArePaid
  <2> SUFFICES ASSUME IInv, ~doubled, NEW j \in Jobs, Accepted(j), row[j] = "completed"
               PROVE  usage[j] \in {"reserved", "completed"}
    BY DEF ResultsArePaid
  <2>1. TypeOK /\ ChargedInv /\ PaidInv
    BY DEF IInv
  <2>2. usage[j] \in Usages /\ usage[j] # "none"
    BY <2>1 DEF TypeOK, ChargedInv, Accepted
  <2>3. usage[j] \notin {"refunded", "waived"}
    BY <2>1 DEF PaidInv
  <2>4. QED
    BY <2>2, <2>3 DEF Usages
<1>3. QED
  BY <1>1, <1>2

\* The inductive invariant holds whatever fails.
THEOREM Invariant == Spec => []IInv
<1>1. QED
  BY IInvInit, InvariantStep, PTL DEF Spec

\* Every variable keeps its type, whatever fails.
THEOREM TypeCorrect == Spec => []TypeOK
<1>1. QED
  BY Invariant, InvariantMeans, PTL

\* An accepted job that is not finished is in the queue or in processing,
\* unless the worker could not write down how it ended: crashes at any point,
\* repeated ones during recovery included, lose no job.
THEOREM NeverLost == Spec => []NoJobLost
<1>1. QED
  BY Invariant, InvariantMeans, PTL

\* Two tasks never work on one job, whatever else fails, as long as no recovery is
\* cut short, by a kill or by Redis, and no push is sent twice.
THEOREM ClaimedByOne == Spec => []ClaimedOnce
<1>1. QED
  BY Invariant, InvariantMeans, PTL

\* A job whose credits were returned is not completed, under the same condition.
THEOREM Paid == Spec => []ResultsArePaid
<1>1. QED
  BY Invariant, InvariantMeans, PTL
-----------------------------------------------------------------------------
(* The books, while nothing is killed, cancelled or abandoned, PostgreSQL      *)
(* answers and no push is sent twice: Redis and the engine may fail, recovery  *)
(* may fail before its first push, and in the middle nothing is said.          *)

CalmFaults == {"engine", "stop", "redis"}

\* Whose outcome and record disagree is in the hands of the request or the task
\* that is about to make them agree.
BooksInv ==
  ~doubled =>
    /\ \A j \in Jobs : row[j] = "completed" /\ usage[j] # "completed" =>
         \/ submit[j] \in {"copied", "refusing"}
         \/ \E t \in Tasks : tjob[t] = j /\ tpc[t] = "settle"
    /\ \A j \in Jobs : row[j] = "failed" /\ usage[j] # "refunded" =>
         \E t \in Tasks : tjob[t] = j /\ tpc[t] \in BeforeRefund

\* Unless the process is killed, a command sent again or recovery meets an error,
\* nothing is doubled.
LEMMA SingleStep ==
  ASSUME Faults \cap {"crash", "resend", "redis"} = {}, doubled \in BOOLEAN, ~doubled,
         [Next]_vars
  PROVE  ~doubled'
<1> USE DEF Sent, Resent, PushResent, Fault, ghosts
<1>1. ASSUME NEW k \in Jobs, Request(k) \/ Refuse(k) \/ Abandon(k) \/ DeleteJob(k)
      PROVE  ~doubled'
  BY <1>1 DEF Request, ReadCache, InsertQueued, InsertCached, Charge, CreditsExhausted,
              RemoveRefused, ChargeWithoutRow, HashQueued, Push, Refuse, Abandon, DeleteJob
<1>2. ASSUME NEW t \in Tasks, \/ Pop(t) \/ Process(t) \/ Cancel(t) \/ DbError(t)
                              \/ RedisError(t) \/ EndTaskWithoutLrem(t)
      PROVE  ~doubled'
  BY <1>2 DEF Pop, Process, ReadRow, AcquireSlot, SlotTimeout, MarkRow, MarkHash, Complete,
              EngineError, Settle, Publish, FillCache, ReleaseSlot, Notify, FailRow,
              FailRefund, FailHash, EndTask, SetHash, Task, Cancel, DbError, RedisError,
              EndTaskWithoutLrem
<1>3. ASSUME Loop \/ Stop \/ ReapSlot \/ \E i \in Inputs : ExpireCache(i)
      PROVE  ~doubled'
  BY <1>3 DEF Loop, StartWorker, Requeue, Discard, LeaveLoop, Exit, Stop, ReapSlot,
              ExpireCache
<1>4. ~Crash /\ ~RecoveryFails
  BY DEF Crash, RecoveryFails
<1>5. ASSUME UNCHANGED vars
      PROVE  ~doubled'
  BY <1>5 DEF vars
<1>6. QED
  BY <1>1, <1>2, <1>3, <1>4, <1>5 DEF Next

\* With calm faults only, nothing is interrupted.
LEMMA CalmStep ==
  ASSUME Faults \subseteq CalmFaults
  PROVE  ~Crash /\ \A t \in Tasks : ~Cancel(t) /\ ~DbError(t)
<1>1. Faults \cap {"crash", "cancel", "db"} = {}
  BY DEF CalmFaults
<1>2. QED
  BY <1>1 DEF Crash, Cancel, DbError, Fault

\* The request of a cached copy, which no task has, charges it or removes it.
LEMMA RequestBalance ==
  ASSUME TypeOK, ChargedInv, KnownAccepted, BooksInv, ~doubled, NEW k \in Jobs,
         Request(k) \/ Refuse(k) \/ DeleteJob(k)
  PROVE  /\ row'[k] = "completed" /\ usage'[k] # "completed" =>
              \/ submit'[k] \in {"copied", "refusing"}
              \/ \E t \in Tasks : tjob[t] = k /\ tpc[t] = "settle"
         /\ row'[k] = "failed" /\ usage'[k] # "refunded" =>
              \E t \in Tasks : tjob[t] = k /\ tpc[t] \in BeforeRefund
<1>1. ~Accepted(k) => \A t \in Tasks : tjob[t] # k
  BY DEF KnownAccepted, Known
<1> USE DEF BooksInv, ChargedInv, TypeOK, Submit, Accepted, database
<1>2. CASE ReadCache(k) \/ Refuse(k) \/ ChargeWithoutRow(k) \/ HashQueued(k) \/ Push(k)
  BY <1>2 DEF ReadCache, Refuse, ChargeWithoutRow, HashQueued, Push
<1>3. CASE InsertQueued(k) \/ InsertCached(k) \/ RemoveRefused(k) \/ DeleteJob(k)
  BY <1>3 DEF InsertQueued, InsertCached, RemoveRefused, DeleteJob, requests
<1>4. CASE Charge(k)
  BY <1>1, <1>4 DEF Charge
<1>5. CASE CreditsExhausted(k)
  BY <1>1, <1>5 DEF CreditsExhausted
<1>6. QED
  BY <1>2, <1>3, <1>4, <1>5 DEF Request

\* The task of a job completes and settles it, or fails and refunds it.
LEMMA TaskBalance ==
  ASSUME TypeOK, TasksInv, ChargedInv, PaidInv, KnownAccepted, BooksInv, ~doubled,
         NEW t \in Tasks, Process(t) \/ RedisError(t) \/ EndTaskWithoutLrem(t)
  PROVE  LET j == tjob[t]
         IN  /\ row'[j] = "completed" /\ usage'[j] # "completed" =>
                  \E u \in Tasks : tjob'[u] = j /\ tpc'[u] = "settle"
             /\ row'[j] = "failed" /\ usage'[j] # "refunded" =>
                  \E u \in Tasks : tjob'[u] = j /\ tpc'[u] \in BeforeRefund
<1> DEFINE j == tjob[t]
<1>1. /\ j \in Jobs /\ Accepted(j) /\ usage[j] # "none" /\ usage[j] \in Usages
      /\ \A u \in Tasks \ {t} : tpc'[u] = tpc[u] /\ tjob'[u] = tjob[u]
  <2>1. j \in Jobs /\ \A u \in Tasks \ {t} : tpc'[u] = tpc[u] /\ tjob'[u] = tjob[u]
    BY TaskRows
  <2>2. QED
    BY <2>1 DEF KnownAccepted, Known, Accepted, ChargedInv, TypeOK
<1> USE DEF BeforeResult, BeforeRefund
<1>2. CASE UNCHANGED <<row, usage>> /\ tpc[t] \notin {"settle"} \cup BeforeRefund
  BY <1>1, <1>2 DEF BooksInv, Accepted
<1>3. CASE MarkRow(t)
  BY <1>1, <1>3 DEF MarkRow, RowWith, Task, PaidInv, BooksInv, TypeOK
<1>4. CASE Complete(t)
  BY <1>1, <1>4 DEF Complete, RowWith, Task, TypeOK
<1>5. CASE FailRow(t)
  BY <1>1, <1>5 DEF FailRow, RowWith, Task, TypeOK
<1>6. CASE Settle(t)
  BY <1>1, <1>6 DEF Settle, UsageWith, Task, PaidInv, BooksInv, TypeOK
<1>7. CASE FailRefund(t)
  BY <1>1, <1>7 DEF FailRefund, UsageWith, Task, PaidInv, BooksInv, TypeOK
<1>8. CASE \/ ReadRow(t) \/ AcquireSlot(t) \/ SlotTimeout(t) \/ MarkHash(t) \/ EngineError(t)
           \/ Publish(t) \/ FillCache(t) \/ ReleaseSlot(t) \/ Notify(t) \/ FailHash(t)
           \/ EndTask(t) \/ EndTaskWithoutLrem(t)
  BY <1>2, <1>8 DEF ReadRow, AcquireSlot, SlotTimeout, MarkHash, EngineError, Publish, FillCache,
                    ReleaseSlot, Notify, FailHash, SetHash, Task, EndTask, EndTaskWithoutLrem,
                    database
<1>9. CASE RedisError(t)
  BY <1>2, <1>9 DEF RedisError, Raise, UsesRedis, database
<1>10. QED
  BY <1>3, <1>4, <1>5, <1>6, <1>7, <1>8, <1>9 DEF Process

\* Every step keeps the books.
LEMMA BooksStep ==
  ASSUME IInv, BooksInv, Faults \subseteq CalmFaults, [Next]_vars
  PROVE  BooksInv'
<1> SUFFICES ASSUME ~doubled'
             PROVE  BooksInv'
  BY DEF BooksInv
<1>1. TypeOK /\ TasksInv /\ KnownAccepted /\ ChargedInv /\ PaidInv /\ UniqueInv
  BY DEF IInv
<1>2. ~doubled /\ ~Crash /\ \A t \in Tasks : ~Cancel(t) /\ ~DbError(t)
  BY <1>1, CalmStep, DoubledStep
<1>3. ASSUME NEW k \in Jobs, Request(k) \/ Refuse(k) \/ Abandon(k) \/ DeleteJob(k)
      PROVE  BooksInv'
  <2>1. ~Abandon(k)
    BY DEF Abandon, Fault, CalmFaults
  <2>2. UNCHANGED <<tpc, tjob>> /\ \A j \in Jobs \ {k} : submit'[j] = submit[j]
    BY <1>1, <1>3, RequestLists
  <2>3. \A j \in Jobs \ {k} : usage'[j] = usage[j] /\ row'[j] = row[j]
    BY <1>1, <1>3, RequestBooks
  <2>4. QED
    BY <1>1, <1>2, <1>3, <2>1, <2>2, <2>3, RequestBalance DEF BooksInv
<1>4. ASSUME NEW t \in Tasks, Process(t) \/ RedisError(t) \/ EndTaskWithoutLrem(t)
      PROVE  BooksInv'
  <2>1. /\ tjob[t] \in Jobs
        /\ \A u \in Tasks \ {t} : tpc'[u] = tpc[u] /\ tjob'[u] = tjob[u]
        /\ \A k \in Jobs : k # tjob[t] => row'[k] = row[k] /\ usage'[k] = usage[k]
        /\ submit' = submit
    BY <1>1, <1>4, TaskRows, TaskBooks, TaskLists
  <2>2. ASSUME NEW k \in Jobs, k # tjob[t]
        PROVE  /\ row'[k] = "completed" /\ usage'[k] # "completed" =>
                    \/ submit'[k] \in {"copied", "refusing"}
                    \/ \E u \in Tasks : tjob'[u] = k /\ tpc'[u] = "settle"
               /\ row'[k] = "failed" /\ usage'[k] # "refunded" =>
                    \E u \in Tasks : tjob'[u] = k /\ tpc'[u] \in BeforeRefund
    BY <1>2, <2>1, <2>2 DEF BooksInv
  <2>3. QED
    BY <1>1, <1>2, <1>4, <2>2, TaskBalance DEF BooksInv
<1>5. ASSUME NEW t \in Tasks, Pop(t)
      PROVE  BooksInv'
  <2>1. UNCHANGED <<row, usage, submit>>
    BY <1>5 DEF Pop, database, requests
  <2>2. tpc[t] = "idle" /\ \A u \in Tasks \ {t} : tpc'[u] = tpc[u] /\ tjob'[u] = tjob[u]
    BY <1>1, <1>5 DEF Pop, TypeOK
  <2>3. QED
    BY <1>2, <2>1, <2>2 DEF BooksInv, BeforeRefund
<1>6. CASE Loop \/ RecoveryFails \/ Stop \/ ReapSlot \/ \E i \in Inputs : ExpireCache(i)
  BY <1>2, <1>6 DEF Loop, StartWorker, Requeue, Discard, LeaveLoop, Exit, RecoveryFails, Stop, ReapSlot,
                    ExpireCache, BooksInv, requests, database, process
<1>7. CASE UNCHANGED vars
  BY <1>2, <1>7 DEF vars, BooksInv, requests, database, process
<1>8. QED
  BY <1>2, <1>3, <1>4, <1>5, <1>6, <1>7 DEF Next

\* A job that nothing works on any more is paid if it was completed and refunded
\* if it failed, whatever Redis and the engine do, unless Redis has failed in the
\* middle of a recovery and two tasks may have had the job.
THEOREM BooksBalanced ==
  ASSUME Faults \subseteq CalmFaults
  PROVE  Spec => []BooksBalance
<1>1. Init => BooksInv
  BY DEF Init, BooksInv
<1>2. IInv /\ BooksInv /\ [Next]_vars => BooksInv'
  BY BooksStep
<1>3. BooksInv => BooksBalance
  BY DEF BooksInv, BooksBalance, AtRest, Settled
<1>4. QED
  BY Invariant, <1>1, <1>2, <1>3, PTL DEF Spec
-----------------------------------------------------------------------------
(* The client of Stream, while PostgreSQL and Redis answer the worker.  The   *)
(* process may be killed or stopped and tasks cancelled at any point.         *)

\* Where the result of a job is stored and its hash does not say so yet, where
\* a failure is being written down, and where the row says so already.
Publishing == {"settle", "publish"}
Failing    == FirstFail \cup LastFail
RowFailed  == Failing \ {"fail_row", "last_row"}

\* A hash says nothing before enqueue and never an end that the row, or the task
\* that is about to write it, could contradict.
HashInv ==
  ~doubled =>
    /\ \A j \in Jobs :
         /\ hash[j] # "none" => submit[j] \in {"hashed", "accepted", "abandoned"}
         /\ hash[j] \in Terminal => row[j] \in {hash[j], "none"}
         /\ hash[j] = "completed" /\ row[j] = "completed" => j \in result
    /\ \A t \in Tasks :
         /\ tpc[t] \in BeforeResult \cup Publishing => hash[tjob[t]] \notin Terminal
         /\ tpc[t] \in Publishing =>
              row[tjob[t]] = "none" \/ (row[tjob[t]] = "completed" /\ tjob[t] \in result)
         /\ tpc[t] \in Failing => hash[tjob[t]] # "completed"
         /\ tpc[t] \in RowFailed => row[tjob[t]] \in {"failed", "none"}

\* What a client was told is still what the hash says, or is behind it.
ClientInv ==
  /\ reading = "idle" => told = "none"
  /\ reading # "idle" => about \in Jobs
  /\ reading = "streaming" => told \notin Terminal
  /\ ~doubled =>
       /\ reading = "streaming" /\ told = "processing" =>
            hash[about] \in {"processing"} \cup Terminal
       /\ told \in Terminal => hash[about] = told
       /\ reading = "getting" /\ told \in Terminal => seen = told
       /\ AnswerConfirms

\* What Redis and PostgreSQL forget is in no part of the pipeline's invariant.
LEMMA ForgetKeeps == IInv /\ Forget => IInv' /\ UNCHANGED <<submit, row, tpc, tjob, doubled>>
<1> SUFFICES ASSUME IInv, Forget
             PROVE  IInv' /\ UNCHANGED <<submit, row, tpc, tjob, doubled>>
  OBVIOUS
<1>1. /\ UNCHANGED <<submit, row, usage, cache, queue, processing, leaked, worker, orphans,
                    tpc, tjob, faults, unrecorded, doubled>>
      /\ hash' \in [Jobs -> Statuses] /\ result' \in SUBSET Jobs
  BY DEF Forget, PurgeOldContent, ExpireHash, IInv, TypeOK, Statuses, Ended,
         requests, database, redis, process, ghosts
<1>2. TypeOK'
  BY <1>1 DEF IInv, TypeOK
<1>3. TasksInv' /\ CopiedInv' /\ RecordedInv' /\ RecoveryInv'
  <2>1. TasksInv' /\ CopiedInv'
    BY <1>1 DEF IInv, TasksInv, CopiedInv
  <2>2. RecordedInv' /\ RecoveryInv'
    BY <1>1 DEF IInv, RecordedInv, Recorded, Open, RecoveryInv, Elems
  <2>3. QED
    BY <2>1, <2>2
<1>4. KnownAccepted' /\ NoJobLost'
  BY <1>1 DEF IInv, KnownAccepted, Known, NoJobLost, Kept, Listed, Accepted, Open, Elems
<1>5. UniqueInv' /\ ChargedInv' /\ PaidInv'
  BY <1>1 DEF IInv, UniqueInv, Distinct, ClaimedOnce, Elems, ChargedInv, PaidInv
<1>6. QED
  BY <1>1, <1>2, <1>3, <1>4, <1>5 DEF IInv

\* A task writes the hash of its own job: processing on its way to a result, and
\* an end once, when the row has it.
LEMMA HashTaskStep ==
  ASSUME TypeOK, TasksInv, PaidInv, HashInv, ~doubled, NEW t \in Tasks,
         Process(t) \/ Cancel(t)
  PROVE  LET j == tjob[t]
         IN  /\ \A k \in Jobs \ {j} : hash'[k] = hash[k] /\ (k \in result' <=> k \in result)
             /\ hash[j] = "processing" => hash'[j] \in {"processing"} \cup Terminal
             /\ hash[j] \in Terminal => hash'[j] = hash[j]
             /\ hash'[j] \in Terminal => row'[j] \in {hash'[j], "none"}
             /\ hash'[j] = "completed" /\ row'[j] = "completed" => j \in result'
             /\ tpc'[t] \in BeforeResult \cup Publishing =>
                  tjob'[t] = j /\ hash'[j] \notin Terminal
             /\ tpc'[t] \in Publishing =>
                  row'[j] = "none" \/ (row'[j] = "completed" /\ j \in result')
             /\ tpc'[t] \in Failing => tjob'[t] = j /\ hash'[j] # "completed"
             /\ tpc'[t] \in RowFailed => row'[j] \in {"failed", "none"}
<1> DEFINE j == tjob[t]
<1>1. j \in Jobs /\ row[j] \in Statuses /\ hash[j] \in Statuses
  BY TaskRows DEF TypeOK
<1> USE DEF HashInv, BeforeResult, Publishing, Failing, RowFailed, FirstFail, LastFail,
            Terminal, TypeOK
<1>2. CASE ReadRow(t)
  BY <1>1, <1>2 DEF ReadRow, Task, Statuses, database, redis
<1>3. CASE MarkRow(t)
  BY <1>1, <1>3 DEF MarkRow, RowWith, Task, redis
<1>4. CASE Complete(t)
  BY <1>1, <1>4 DEF Complete, RowWith, Task, redis
<1>5. CASE FailRow(t)
  BY <1>1, <1>5 DEF FailRow, RowWith, Task, redis, Statuses
<1>6. CASE MarkHash(t) \/ Publish(t) \/ FailHash(t)
  BY <1>1, <1>6 DEF MarkHash, Publish, FailHash, SetHash, Task, Statuses, database
<1>7. CASE \/ AcquireSlot(t) \/ SlotTimeout(t) \/ EngineError(t) \/ Settle(t) \/ FillCache(t)
           \/ ReleaseSlot(t) \/ Notify(t) \/ FailRefund(t)
  BY <1>1, <1>7 DEF AcquireSlot, SlotTimeout, EngineError, Settle, FillCache, ReleaseSlot, Notify,
                    FailRefund, Task, Statuses, database, redis
<1>8. CASE EndTask(t) \/ Cancel(t)
  BY <1>1, <1>8 DEF EndTask, Cancel, Statuses, database
<1>9. QED
  BY <1>2, <1>3, <1>4, <1>5, <1>6, <1>7, <1>8 DEF Process

\* A request writes its hash before its push, so before a task has the job.
LEMMA HashRequestStep ==
  ASSUME TypeOK, HashInv, ~doubled, NEW k \in Jobs,
         Request(k) \/ Refuse(k) \/ Abandon(k) \/ DeleteJob(k)
  PROVE  /\ \A j \in Jobs \ {k} :
              /\ hash'[j] = hash[j] /\ submit'[j] = submit[j] /\ row'[j] = row[j]
              /\ j \in result' <=> j \in result
         /\ Accepted(k) => /\ hash'[k] = hash[k]
                           /\ \/ row'[k] = row[k] /\ (k \in result' <=> k \in result)
                              \/ row'[k] = "none"
         /\ hash'[k] # "none" => submit'[k] \in {"hashed", "accepted", "abandoned"}
         /\ hash[k] \in {"processing"} \cup Terminal => hash'[k] = hash[k]
         /\ hash'[k] \in Terminal => row'[k] \in {hash'[k], "none"}
         /\ hash'[k] = "completed" /\ row'[k] = "completed" => k \in result'
<1> USE DEF HashInv, Submit, Accepted, InFlight, Terminal, TypeOK, requests, database, redis
<1>1. CASE \/ ReadCache(k) \/ InsertQueued(k) \/ InsertCached(k) \/ Refuse(k) \/ Abandon(k)
           \/ DeleteJob(k)
  BY <1>1 DEF ReadCache, InsertQueued, InsertCached, Refuse, Abandon, DeleteJob
<1>2. CASE \/ Charge(k) \/ CreditsExhausted(k) \/ RemoveRefused(k) \/ ChargeWithoutRow(k)
           \/ HashQueued(k) \/ Push(k)
  BY <1>2 DEF Charge, CreditsExhausted, RemoveRefused, ChargeWithoutRow, HashQueued, Push
<1>3. QED
  BY <1>1, <1>2 DEF Request

\* Other faults than those of the stores.
StoresAnswer == Faults \cap {"db", "redis"} = {}

\* Every step of the pipeline keeps hash and row together, and takes back no
\* state that a hash has told.
LEMMA HashStep ==
  ASSUME IInv, HashInv, StoresAnswer, [Next]_vars
  PROVE  /\ HashInv'
         /\ ~doubled' => \A j \in Jobs :
              /\ hash[j] = "processing" => hash'[j] \in {"processing"} \cup Terminal
              /\ hash[j] \in Terminal => hash'[j] = hash[j]
<1> SUFFICES ASSUME ~doubled'
             PROVE  /\ HashInv'
                    /\ \A j \in Jobs :
                         /\ hash[j] = "processing" => hash'[j] \in {"processing"} \cup Terminal
                         /\ hash[j] \in Terminal => hash'[j] = hash[j]
  BY DEF HashInv
<1> DEFINE forward == \A j \in Jobs :
                        /\ hash[j] = "processing" => hash'[j] \in {"processing"} \cup Terminal
                        /\ hash[j] \in Terminal => hash'[j] = hash[j]
           active  == BeforeResult \cup Publishing \cup Failing
<1>1. TypeOK /\ TasksInv /\ KnownAccepted /\ UniqueInv /\ PaidInv
  BY DEF IInv
<1>2. ~doubled
  BY <1>1, DoubledStep
<1>3. /\ \A t \in Tasks : tpc[t] # "idle" => tjob[t] \in Jobs /\ Accepted(tjob[t])
      /\ active \cap {"idle", "read", "lrem"} = {} /\ RowFailed \subseteq active
  BY <1>1 DEF TypeOK, TasksInv, KnownAccepted, Known, BeforeResult, Publishing, Failing,
              RowFailed, FirstFail, LastFail
<1>4. ASSUME NEW k \in Jobs, Request(k) \/ Refuse(k) \/ Abandon(k) \/ DeleteJob(k)
      PROVE  HashInv' /\ forward
  <2>1. UNCHANGED <<tpc, tjob>>
    BY <1>1, <1>4, RequestLists
  <2>2. \A j \in Jobs : Accepted(j) =>
          /\ hash'[j] = hash[j]
          /\ \/ row'[j] = row[j] /\ (j \in result' <=> j \in result)
             \/ row'[j] = "none"
    BY <1>1, <1>2, <1>4, HashRequestStep
  <2>3. \A t \in Tasks : tpc[t] # "idle" =>
          /\ hash'[tjob[t]] = hash[tjob[t]]
          /\ \/ row'[tjob[t]] = row[tjob[t]] /\ (tjob[t] \in result' <=> tjob[t] \in result)
             \/ row'[tjob[t]] = "none"
    BY <1>3, <2>2
  <2>4. ASSUME NEW j \in Jobs
        PROVE  /\ hash'[j] # "none" => submit'[j] \in {"hashed", "accepted", "abandoned"}
               /\ hash'[j] \in Terminal => row'[j] \in {hash'[j], "none"}
               /\ hash'[j] = "completed" /\ row'[j] = "completed" => j \in result'
               /\ hash[j] \in {"processing"} \cup Terminal => hash'[j] = hash[j]
    BY <1>1, <1>2, <1>4, HashRequestStep DEF HashInv
  <2>5. ASSUME NEW t \in Tasks
        PROVE  /\ tpc'[t] \in BeforeResult \cup Publishing => hash'[tjob'[t]] \notin Terminal
               /\ tpc'[t] \in Publishing =>
                    \/ row'[tjob'[t]] = "none"
                    \/ row'[tjob'[t]] = "completed" /\ tjob'[t] \in result'
               /\ tpc'[t] \in Failing => hash'[tjob'[t]] # "completed"
               /\ tpc'[t] \in RowFailed => row'[tjob'[t]] \in {"failed", "none"}
    BY <1>2, <1>3, <2>1, <2>3 DEF HashInv
  <2>6. QED
    BY <2>4, <2>5 DEF HashInv
<1>5. ASSUME NEW t \in Tasks, Process(t) \/ Cancel(t)
      PROVE  HashInv' /\ forward
  <2> DEFINE j == tjob[t]
  <2>1. j \in Jobs /\ submit' = submit /\ tpc[t] # "idle" /\ Accepted(j)
    BY <1>1, <1>3, <1>5, TaskRows, TaskLists, PipelineAssumption DEF TasksInv
  <2>2. \A k \in Jobs \ {j} :
          hash'[k] = hash[k] /\ row'[k] = row[k] /\ (k \in result' <=> k \in result)
    BY <1>1, <1>2, <1>5, HashTaskStep, TaskRows
  <2>3. ASSUME NEW k \in Jobs
        PROVE  /\ hash'[k] # "none" => submit'[k] \in {"hashed", "accepted", "abandoned"}
               /\ hash'[k] \in Terminal => row'[k] \in {hash'[k], "none"}
               /\ hash'[k] = "completed" /\ row'[k] = "completed" => k \in result'
               /\ hash[k] = "processing" => hash'[k] \in {"processing"} \cup Terminal
               /\ hash[k] \in Terminal => hash'[k] = hash[k]
    <3>1. CASE k = j
      BY <1>1, <1>2, <1>5, <2>1, <3>1, HashTaskStep DEF Accepted
    <3>2. CASE k # j
      BY <1>2, <2>1, <2>2, <3>2 DEF HashInv
    <3>3. QED
      BY <3>1, <3>2
  <2>4. ASSUME NEW u \in Tasks
        PROVE  /\ tpc'[u] \in BeforeResult \cup Publishing => hash'[tjob'[u]] \notin Terminal
               /\ tpc'[u] \in Publishing =>
                    \/ row'[tjob'[u]] = "none"
                    \/ row'[tjob'[u]] = "completed" /\ tjob'[u] \in result'
               /\ tpc'[u] \in Failing => hash'[tjob'[u]] # "completed"
               /\ tpc'[u] \in RowFailed => row'[tjob'[u]] \in {"failed", "none"}
    <3>1. CASE u = t
      <4> HIDE DEF active
      <4>1. QED
        BY <1>1, <1>2, <1>5, <3>1, HashTaskStep DEF RowFailed
    <3>2. CASE u # t /\ tpc'[u] # "idle"
      <4>1. tpc'[u] = tpc[u] /\ tjob'[u] = tjob[u]
        BY <1>1, <1>5, <3>2, TaskRows
      <4>2. tjob[u] # j /\ tjob[u] \in Jobs
        BY <1>1, <1>2, <1>3, <2>1, <3>2, <4>1, PipelineAssumption DEF UniqueInv, ClaimedOnce
      <4>3. QED
        BY <1>2, <2>2, <4>1, <4>2 DEF HashInv
    <3>3. CASE tpc'[u] = "idle"
      BY <1>3, <3>3
    <3>4. QED
      BY <3>1, <3>2, <3>3
  <2>5. QED
    BY <2>3, <2>4 DEF HashInv
<1>6. \A t \in Tasks : ~DbError(t) /\ ~RedisError(t) /\ ~EndTaskWithoutLrem(t)
  BY DEF StoresAnswer, DbError, RedisError, EndTaskWithoutLrem, Fault
<1>7. ASSUME NEW t \in Tasks, Pop(t)
      PROVE  HashInv' /\ forward
  <2>1. UNCHANGED <<row, result, hash, submit>>
    BY <1>7 DEF Pop, database, requests
  <2>2. /\ \A u \in Tasks \ {t} : tpc'[u] = tpc[u] /\ tjob'[u] = tjob[u]
        /\ tpc'[t] \in {"idle", "read"}
    BY <1>1, <1>7 DEF Pop, TypeOK
  <2>3. QED
    BY <1>2, <1>3, <2>1, <2>2 DEF HashInv
<1>8. CASE Crash
  BY <1>1, <1>2, <1>3, <1>8 DEF Crash, HashInv, InFlight, TypeOK, database
<1>9. CASE Loop \/ RecoveryFails \/ Stop \/ ReapSlot \/ \E i \in Inputs : ExpireCache(i)
  BY <1>2, <1>9 DEF Loop, StartWorker, Requeue, Discard, LeaveLoop, Exit, RecoveryFails, Stop, ReapSlot,
                    ExpireCache, HashInv, requests, database, redis, process
<1>10. CASE UNCHANGED vars
  BY <1>2, <1>10 DEF vars, HashInv, requests, database, redis, process
<1>11. QED
  BY <1>4, <1>5, <1>6, <1>7, <1>8, <1>9, <1>10 DEF Next

\* Expiry and purge wait until no task has the job and no client follows it.
LEMMA HashForget ==
  ASSUME IInv, HashInv, Forget
  PROVE  HashInv' /\ (about \in Jobs => hash'[about] = hash[about])
<1>1. /\ UNCHANGED <<submit, row, tpc, tjob, doubled>>
      /\ TypeOK /\ \A t \in Tasks : tpc[t] # "idle" => tjob[t] \in Jobs
  BY ForgetKeeps DEF IInv, TypeOK, TasksInv
<1>2. ASSUME NEW j \in Jobs, ExpireHash(j)
      PROVE  HashInv' /\ (about \in Jobs => hash'[about] = hash[about])
  <2>1. /\ hash' = [hash EXCEPT ![j] = "none"] /\ about # j /\ result' = result
        /\ \A t \in Tasks : tjob[t] # j
    BY <1>2 DEF ExpireHash, database
  <2>2. QED
    BY <1>1, <2>1 DEF HashInv, TypeOK, Terminal, BeforeResult, Publishing, Failing, RowFailed,
                      FirstFail, LastFail
<1>3. ASSUME PurgeOldContent
      PROVE  HashInv' /\ (about \in Jobs => hash'[about] = hash[about])
  <2>1. PICK old \in SUBSET {j \in result : hash[j] = "none" /\ \A t \in Tasks : tjob[t] # j} :
          result' = result \ old
    BY <1>3 DEF PurgeOldContent
  <2>2. hash' = hash
    BY <1>3 DEF PurgeOldContent, redis
  <2>3. QED
    BY <1>1, <2>1, <2>2 DEF HashInv, Publishing
<1>4. QED
  BY <1>2, <1>3 DEF Forget

\* What the client does with what it reads.
LEMMA ClientStep ==
  ASSUME IInv, HashInv, ClientInv, ClientTypeOK, Client, UNCHANGED pipeline
  PROVE  ClientInv'
<1>1. UNCHANGED <<row, result, hash, doubled>> /\ TypeOK
  BY DEF pipeline, vars, database, redis, ghosts, IInv
<1> USE DEF ClientInv, ClientTypeOK, AnswerConfirms, Terminal
<1>2. ASSUME NEW j \in Followed, OpenStream(j) \/ GetHash(j)
      PROVE  ClientInv'
  <2>1. j \in Jobs
    BY FollowedAssumption
  <2>2. QED
    BY <1>1, <1>2, <2>1 DEF OpenStream, GetHash
<1>3. CASE Poll
  <2>1. about \in Jobs /\ hash[about] \in Statuses
    BY <1>1, <1>3 DEF Poll, TypeOK
  <2>2. QED
    BY <1>1, <1>3, <2>1 DEF Poll, Reported, Statuses
<1>4. CASE GetRow
  <2>1. about \in Jobs /\ told' = told /\ about' = about /\ reading' = "answered"
    BY <1>4 DEF GetRow
  <2>2. ASSUME ~doubled, told \in Terminal
        PROVE  hash[about] = told /\ seen = told /\ row[about] \in {told, "none"}
    BY <1>4, <2>1, <2>2 DEF GetRow, HashInv
  <2>3. AnswerConfirms' \/ doubled
    BY <1>4, <2>1, <2>2 DEF GetRow, HashInv
  <2>4. QED
    BY <1>1, <1>4, <2>1, <2>2, <2>3 DEF GetRow
<1>5. CASE Leave
  BY <1>1, <1>5, PipelineAssumption DEF Leave, Missing
<1>6. QED
  BY <1>2, <1>3, <1>4, <1>5 DEF Client

\* The types of the client's variables.
LEMMA ClientTypes ==
  ASSUME ClientInv, ClientTypeOK, TypeOK, [StreamNext]_streamVars, TypeOK'
  PROVE  ClientTypeOK'
<1> USE DEF ClientTypeOK
<1>1. CASE UNCHANGED client \/ UNCHANGED streamVars
  BY <1>1 DEF client, streamVars
<1>2. CASE Client
  <2>1. /\ \A j \in Jobs : hash[j] \in Statuses /\ row[j] \in Statuses
        /\ reading # "idle" => about \in Jobs
    BY DEF TypeOK, ClientInv
  <2>2. CASE \E j \in Followed : OpenStream(j) \/ GetHash(j)
    BY <2>1, <2>2, FollowedAssumption DEF OpenStream, GetHash, Answers
  <2>3. CASE Leave
    BY <2>3 DEF Leave, Missing, Answers, Statuses
  <2>4. CASE Poll
    BY <2>1, <2>4 DEF Poll, Reported, Statuses
  <2>5. CASE GetRow
    BY <2>1, <2>5 DEF GetRow, Answers, Statuses
  <2>6. QED
    BY <1>2, <2>2, <2>3, <2>4, <2>5 DEF Client
<1>3. QED
  BY <1>1, <1>2 DEF StreamNext

StreamInv == IInv /\ HashInv /\ ClientInv /\ ClientTypeOK

\* Every step of the system keeps it all.
LEMMA StreamStep ==
  ASSUME StreamInv, StoresAnswer, [StreamNext]_streamVars
  PROVE  StreamInv'
<1> USE DEF StreamInv
<1>1. IInv /\ [Next]_vars => IInv'
  BY InvariantStep
<1>2. ASSUME [Next]_vars, UNCHANGED client
      PROVE  StreamInv'
  <2>1. IInv' /\ HashInv'
    BY <1>1, <1>2, HashStep
  <2>2. ~doubled' => ~doubled
    BY <1>2, DoubledStep DEF IInv
  <2>3. ~doubled' /\ about \in Jobs =>
          /\ hash[about] = "processing" => hash'[about] \in {"processing"} \cup Terminal
          /\ hash[about] \in Terminal => hash'[about] = hash[about]
    BY <1>2, HashStep
  <2>4. ClientInv'
    BY <1>2, <2>2, <2>3 DEF client, ClientInv, AnswerConfirms, Terminal
  <2>5. QED
    BY <1>2, <2>1, <2>4 DEF client, ClientTypeOK, IInv, TypeOK
<1>3. ASSUME Client, UNCHANGED pipeline
      PROVE  StreamInv'
  <2>1. [Next]_vars /\ doubled' = doubled
    BY <1>3 DEF pipeline, vars, ghosts
  <2>2. IInv' /\ HashInv'
    BY <1>1, <2>1, HashStep
  <2>3. ClientInv'
    BY <1>3, ClientStep
  <2>4. ClientTypeOK'
    BY <1>3, <2>2, ClientTypes DEF IInv, StreamNext
  <2>5. QED
    BY <2>1, <2>2, <2>3, <2>4
<1>4. ASSUME Forget, UNCHANGED client
      PROVE  StreamInv'
  <2>1. IInv' /\ UNCHANGED <<submit, row, tpc, tjob, doubled>>
    BY <1>4, ForgetKeeps
  <2>2. HashInv' /\ (about \in Jobs => hash'[about] = hash[about])
    BY <1>4, HashForget
  <2>3. ClientInv'
    BY <1>4, <2>1, <2>2 DEF client, ClientInv, AnswerConfirms, Terminal
  <2>4. QED
    BY <1>4, <2>1, <2>2, <2>3 DEF client, ClientTypeOK, IInv
<1>5. QED
  BY <1>2, <1>3, <1>4 DEF StreamNext, streamVars, client, vars

\* Beside a client, with hashes expiring and results purged, the pipeline keeps
\* what it keeps alone, whatever fails.
THEOREM KeptBesideClient == StreamSpec => [](NoJobLost /\ ClaimedOnce /\ ResultsArePaid)
<1>1. IInv /\ [StreamNext]_streamVars => IInv'
  <2>1. IInv /\ [Next]_vars => IInv'
    BY InvariantStep
  <2>2. [StreamNext]_streamVars => [Next]_vars \/ Forget
    BY DEF StreamNext, streamVars, client, pipeline
  <2>3. QED
    BY <2>1, <2>2, ForgetKeeps
<1>2. StreamInit => IInv
  BY IInvInit DEF StreamInit
<1>3. IInv => NoJobLost /\ ClaimedOnce /\ ResultsArePaid
  BY InvariantMeans
<1>4. QED
  BY <1>1, <1>2, <1>3, PTL DEF StreamSpec

\* And so the books balance in the whole system.
THEOREM BooksBesideClient ==
  ASSUME Faults \subseteq CalmFaults
  PROVE  StreamSpec => []BooksBalance
<1>1. IInv /\ BooksInv /\ [StreamNext]_streamVars => IInv' /\ BooksInv'
  <2>1. IInv /\ BooksInv /\ [Next]_vars => IInv' /\ BooksInv'
    BY InvariantStep, BooksStep
  <2>2. [StreamNext]_streamVars => [Next]_vars \/ Forget
    BY DEF StreamNext, streamVars, client, pipeline
  <2>3. IInv /\ BooksInv /\ Forget => IInv' /\ BooksInv'
    <3>1. Forget => usage' = usage
      BY DEF Forget, PurgeOldContent, ExpireHash, database
    <3>2. QED
      BY <3>1, ForgetKeeps DEF BooksInv
  <2>4. QED
    BY <2>1, <2>2, <2>3
<1>2. StreamInit => IInv /\ BooksInv
  BY IInvInit DEF StreamInit, Init, BooksInv
<1>3. BooksInv => BooksBalance
  BY DEF BooksInv, BooksBalance, AtRest, Settled
<1>4. QED
  BY <1>1, <1>2, <1>3, PTL DEF StreamSpec

\* The invariant of the whole system holds at the start,
LEMMA StreamInvInit == StreamInit => StreamInv
<1> SUFFICES ASSUME StreamInit
             PROVE  StreamInv
  OBVIOUS
<1>1. IInv
  BY IInvInit DEF StreamInit
<1>2. HashInv
  BY DEF StreamInit, Init, HashInv, Terminal, BeforeResult, Publishing, Failing, RowFailed,
         FirstFail, LastFail
<1>3. ClientInv /\ ClientTypeOK
  BY <1>1 DEF StreamInit, NoClient, Missing, Answers, Statuses, ClientInv, ClientTypeOK,
              AnswerConfirms, Terminal, IInv
<1>4. QED
  BY <1>1, <1>2, <1>3 DEF StreamInv

\* ... and always: the pipeline's, and the client's.
THEOREM StreamInvariant ==
  ASSUME StoresAnswer
  PROVE  StreamSpec => [](StreamInv /\ (~doubled => AnswerConfirms))
<1>1. StreamInv /\ [StreamNext]_streamVars => StreamInv'
  BY StreamStep
<1>2. StreamInv => (~doubled => AnswerConfirms)
  BY DEF StreamInv, ClientInv
<1>3. QED
  BY StreamInvInit, <1>1, <1>2, PTL DEF StreamSpec

\* A client that was told the end of its job gets that answer, and with a
\* completed job its result and score, as long as the stores answer and nothing
\* is doubled: requests, crashes, shutdowns, the purge and expiry interleave.
THEOREM AnswersConfirmed ==
  ASSUME StoresAnswer
  PROVE  StreamSpec => [](~doubled => AnswerConfirms)
<1>1. QED
  BY StreamInvariant, PTL
-----------------------------------------------------------------------------
(* What a job's client is promised, while the stores answer and nothing is     *)
(* doubled: Stream implements JobPromise.                                      *)

\* Until its row is to be inserted a request has no job; then it is queued.
Unmade   == {"new", "miss", "hit"}
Enqueued == {"inserted", "charged", "hashed"}

\* The row says what the other records of a job may say: no job goes back to
\* where its hash, its result or its usage record have seen it leave.
RecordsInv ==
  \A j \in Jobs :
    /\ submit[j] \in Unmade => row[j] = "none"
    /\ submit[j] \in Enqueued => row[j] \in {"queued", "none"}
    /\ hash[j] = "processing" => row[j] # "queued"
    /\ j \in result => row[j] = "completed"
    /\ usage[j] = "completed" => row[j] \in {"completed", "none"}
    /\ usage[j] # "waived"

\* A task that is at work has a job that is under way, and who writes a failure
\* down does not have a completed one.
WorkInv ==
  \A t \in Tasks :
    /\ tpc[t] \in {"mark", "work"} => row[tjob[t]] \in {"processing", "none"}
    /\ tpc[t] \in {"fail_row", "last_row"} => row[tjob[t]] # "completed"

OutcomeInv == ~doubled => RecordsInv /\ WorkInv

\* A client is answered once, and a stream is about a job that was made.
SessionInv ==
  /\ reading # "answered" => answer = Missing
  /\ reading = "idle" => about = NoJob
  /\ reading = "streaming" /\ ~doubled => submit[about] \notin Unmade

\* A task moves the records of its own job, in the order of the invariant.
LEMMA OutcomeTaskStep ==
  ASSUME TypeOK, TasksInv, PaidInv, HashInv, RecordsInv, WorkInv, ~doubled,
         NEW t \in Tasks, Process(t) \/ Cancel(t)
  PROVE  LET j == tjob[t]
         IN  /\ hash'[j] = "processing" => row'[j] # "queued"
             /\ j \in result' => row'[j] = "completed"
             /\ usage'[j] = "completed" => row'[j] \in {"completed", "none"}
             /\ usage'[j] # "waived"
             /\ tpc'[t] \in {"mark", "work"} => tjob'[t] = j /\ row'[j] \in {"processing", "none"}
             /\ tpc'[t] \in {"fail_row", "last_row"} => tjob'[t] = j /\ row'[j] # "completed"
<1> DEFINE j == tjob[t]
<1>1. j \in Jobs /\ row[j] \in Statuses
  BY TaskRows DEF TypeOK
<1>2. /\ hash[j] = "processing" => row[j] # "queued"
      /\ j \in result => row[j] = "completed"
      /\ usage[j] = "completed" => row[j] \in {"completed", "none"}
      /\ usage[j] # "waived"
  BY <1>1 DEF RecordsInv
<1> USE DEF WorkInv, TypeOK
<1>3. CASE ReadRow(t)
  BY <1>1, <1>2, <1>3 DEF ReadRow, Task, database, redis
<1>4. CASE MarkRow(t)
  BY <1>1, <1>2, <1>4 DEF MarkRow, RowWith, Task, redis, PaidInv, BeforeResult
<1>5. CASE Complete(t)
  BY <1>1, <1>2, <1>5 DEF Complete, RowWith, Task, redis
<1>6. CASE FailRow(t)
  BY <1>1, <1>2, <1>6 DEF FailRow, RowWith, Task, redis
<1>7. CASE Settle(t)
  BY <1>1, <1>2, <1>7 DEF Settle, UsageWith, Task, redis, PaidInv
<1>8. CASE FailRefund(t)
  BY <1>1, <1>2, <1>8 DEF FailRefund, UsageWith, Task, redis
<1>9. CASE MarkHash(t) \/ Publish(t) \/ FailHash(t)
  BY <1>1, <1>2, <1>9 DEF MarkHash, Publish, FailHash, SetHash, Task, database
<1>10. CASE ReleaseSlot(t)
  BY <1>1, <1>2, <1>10 DEF ReleaseSlot, Task, database, redis, HashInv, RowFailed, Failing,
                           FirstFail, LastFail
<1>11. CASE AcquireSlot(t) \/ SlotTimeout(t) \/ EngineError(t)
  BY <1>1, <1>2, <1>11 DEF AcquireSlot, SlotTimeout, EngineError, Task, database, redis,
                           PaidInv, BeforeResult
<1>12. CASE FillCache(t) \/ Notify(t) \/ EndTask(t) \/ Cancel(t)
  BY <1>1, <1>2, <1>12 DEF FillCache, Notify, EndTask, Cancel, Task, database, redis
<1>13. QED
  BY <1>3, <1>4, <1>5, <1>6, <1>7, <1>8, <1>9, <1>10, <1>11, <1>12 DEF Process

\* A request makes the row that nobody knows yet, and its record.
LEMMA OutcomeRequestStep ==
  ASSUME TypeOK, ChargedInv, CopiedInv, HashInv, RecordsInv, ~doubled, NEW k \in Jobs,
         Request(k) \/ Refuse(k) \/ Abandon(k) \/ DeleteJob(k)
  PROVE  /\ submit'[k] \in Unmade => submit[k] \in Unmade /\ row'[k] = "none"
         /\ submit'[k] \in Enqueued => row'[k] \in {"queued", "none"}
         /\ hash'[k] = "processing" => row'[k] # "queued"
         /\ k \in result' => row'[k] = "completed"
         /\ usage'[k] = "completed" => row'[k] \in {"completed", "none"}
         /\ usage'[k] # "waived"
<1> USE DEF RecordsInv, Unmade, Enqueued, Submit, InFlight, TypeOK, requests, database, redis
<1>1. CASE ReadCache(k) \/ InsertQueued(k) \/ InsertCached(k)
  BY <1>1 DEF ReadCache, InsertQueued, InsertCached, ChargedInv, HashInv
<1>2. CASE Refuse(k) \/ Abandon(k) \/ DeleteJob(k) \/ CreditsExhausted(k) \/ RemoveRefused(k)
           \/ ChargeWithoutRow(k)
  BY <1>2 DEF Refuse, Abandon, DeleteJob, CreditsExhausted, RemoveRefused, ChargeWithoutRow
<1>3. CASE Charge(k) \/ HashQueued(k) \/ Push(k)
  BY <1>3 DEF Charge, HashQueued, Push, CopiedInv
<1>4. QED
  BY <1>1, <1>2, <1>3 DEF Request

\* Every step of the pipeline keeps the records of each job in order.
LEMMA OutcomeStep ==
  ASSUME IInv, HashInv, OutcomeInv, StoresAnswer, [Next]_vars
  PROVE  OutcomeInv'
<1> SUFFICES ASSUME ~doubled'
             PROVE  RecordsInv' /\ WorkInv'
  BY DEF OutcomeInv
<1>1. TypeOK /\ TasksInv /\ KnownAccepted /\ UniqueInv /\ PaidInv /\ ChargedInv /\ CopiedInv
  BY DEF IInv
<1>2. ~doubled /\ RecordsInv /\ WorkInv
  BY <1>1, DoubledStep DEF OutcomeInv
<1>3. \A t \in Tasks : tpc[t] # "idle" => tjob[t] \in Jobs /\ Accepted(tjob[t])
  BY <1>1 DEF TypeOK, TasksInv, KnownAccepted, Known
<1>4. ASSUME NEW k \in Jobs, Request(k) \/ Refuse(k) \/ Abandon(k) \/ DeleteJob(k)
      PROVE  RecordsInv' /\ WorkInv'
  <2>1. UNCHANGED <<tpc, tjob>>
    BY <1>1, <1>4, RequestLists
  <2>2. ASSUME NEW t \in Tasks, tpc[t] # "idle"
        PROVE  row'[tjob[t]] \in {row[tjob[t]], "none"}
    BY <1>1, <1>3, <1>4, <2>2, RequestBooks
  <2>3. WorkInv'
    BY <1>2, <2>1, <2>2 DEF WorkInv
  <2>4. \A j \in Jobs \ {k} :
          /\ submit'[j] = submit[j] /\ row'[j] = row[j] /\ hash'[j] = hash[j]
          /\ usage'[j] = usage[j] /\ (j \in result' <=> j \in result)
    BY <1>1, <1>2, <1>4, HashRequestStep, RequestBooks
  <2>5. ASSUME NEW j \in Jobs, j # k
        PROVE  /\ submit'[j] \in Unmade => row'[j] = "none"
               /\ submit'[j] \in Enqueued => row'[j] \in {"queued", "none"}
               /\ hash'[j] = "processing" => row'[j] # "queued"
               /\ j \in result' => row'[j] = "completed"
               /\ usage'[j] = "completed" => row'[j] \in {"completed", "none"}
               /\ usage'[j] # "waived"
    BY <1>2, <2>4, <2>5 DEF RecordsInv
  <2>6. RecordsInv'
    BY <1>1, <1>2, <1>4, <2>5, OutcomeRequestStep DEF RecordsInv
  <2>7. QED
    BY <2>3, <2>6
<1>5. ASSUME NEW t \in Tasks, Process(t) \/ Cancel(t)
      PROVE  RecordsInv' /\ WorkInv'
  <2> DEFINE j == tjob[t]
  <2>1. j \in Jobs /\ submit' = submit /\ tpc[t] # "idle" /\ Accepted(j)
    BY <1>1, <1>3, <1>5, TaskRows, TaskLists, PipelineAssumption DEF TasksInv
  <2>2. \A k \in Jobs \ {j} :
          /\ hash'[k] = hash[k] /\ row'[k] = row[k] /\ usage'[k] = usage[k]
          /\ k \in result' <=> k \in result
    BY <1>1, <1>2, <1>5, HashTaskStep, TaskRows, TaskBooks
  <2>3. ASSUME NEW k \in Jobs
        PROVE  /\ submit'[k] \in Unmade => row'[k] = "none"
               /\ submit'[k] \in Enqueued => row'[k] \in {"queued", "none"}
               /\ hash'[k] = "processing" => row'[k] # "queued"
               /\ k \in result' => row'[k] = "completed"
               /\ usage'[k] = "completed" => row'[k] \in {"completed", "none"}
               /\ usage'[k] # "waived"
    <3>1. CASE k = j
      BY <1>1, <1>2, <1>5, <2>1, <3>1, OutcomeTaskStep DEF Accepted, Unmade, Enqueued
    <3>2. CASE k # j
      BY <1>2, <2>1, <2>2, <3>2 DEF RecordsInv
    <3>3. QED
      BY <3>1, <3>2
  <2>4. ASSUME NEW u \in Tasks
        PROVE  /\ tpc'[u] \in {"mark", "work"} => row'[tjob'[u]] \in {"processing", "none"}
               /\ tpc'[u] \in {"fail_row", "last_row"} => row'[tjob'[u]] # "completed"
    <3>1. CASE u = t
      BY <1>1, <1>2, <1>5, <3>1, OutcomeTaskStep
    <3>2. CASE u # t /\ tpc'[u] # "idle"
      <4>1. tpc'[u] = tpc[u] /\ tjob'[u] = tjob[u]
        BY <1>1, <1>5, <3>2, TaskRows
      <4>2. tjob[u] # j /\ tjob[u] \in Jobs
        BY <1>1, <1>2, <1>3, <2>1, <3>2, <4>1, PipelineAssumption DEF UniqueInv, ClaimedOnce
      <4>3. QED
        BY <1>2, <2>2, <4>1, <4>2 DEF WorkInv
    <3>3. CASE tpc'[u] = "idle"
      BY <3>3
    <3>4. QED
      BY <3>1, <3>2, <3>3
  <2>5. QED
    BY <2>3, <2>4 DEF RecordsInv, WorkInv
<1>6. \A t \in Tasks : ~DbError(t) /\ ~RedisError(t) /\ ~EndTaskWithoutLrem(t)
  BY DEF StoresAnswer, DbError, RedisError, EndTaskWithoutLrem, Fault
<1>7. ASSUME NEW t \in Tasks, Pop(t)
      PROVE  RecordsInv' /\ WorkInv'
  <2>1. UNCHANGED <<row, result, usage, hash, submit>>
    BY <1>7 DEF Pop, database, requests
  <2>2. /\ \A u \in Tasks \ {t} : tpc'[u] = tpc[u] /\ tjob'[u] = tjob[u]
        /\ tpc'[t] \in {"idle", "read"}
    BY <1>1, <1>7 DEF Pop, TypeOK
  <2>3. QED
    BY <1>2, <2>1, <2>2 DEF RecordsInv, WorkInv
<1>8. CASE Crash
  BY <1>1, <1>2, <1>8 DEF Crash, RecordsInv, WorkInv, Unmade, Enqueued, InFlight, TypeOK, database
<1>9. CASE Loop \/ RecoveryFails \/ Stop \/ ReapSlot \/ \E i \in Inputs : ExpireCache(i)
  BY <1>2, <1>9 DEF Loop, StartWorker, Requeue, Discard, LeaveLoop, Exit, RecoveryFails, Stop, ReapSlot,
                    ExpireCache, RecordsInv, WorkInv, requests, database, redis, process
<1>10. CASE UNCHANGED vars
  BY <1>2, <1>10 DEF vars, RecordsInv, WorkInv, requests, database, redis, process
<1>11. QED
  BY <1>4, <1>5, <1>6, <1>7, <1>8, <1>9, <1>10 DEF Next

\* What is forgotten can only be missing.
LEMMA OutcomeForget ==
  ASSUME IInv, OutcomeInv, Forget
  PROVE  OutcomeInv' /\ usage' = usage
<1>1. UNCHANGED <<submit, row, tpc, tjob, doubled>>
  BY ForgetKeeps
<1>2. usage' = usage /\ result' \subseteq result
      /\ \A j \in Jobs : hash'[j] \in {hash[j], "none"}
  BY DEF Forget, PurgeOldContent, ExpireHash, database, redis, IInv, TypeOK
<1>3. QED
  BY <1>1, <1>2 DEF OutcomeInv, RecordsInv, WorkInv

\* A request whose row was inserted never comes back to where it had none.
LEMMA MadeStep ==
  ASSUME IInv, [Next]_vars, NEW j \in Jobs, submit[j] \notin Unmade
  PROVE  submit'[j] \notin Unmade
<1>1. TypeOK
  BY DEF IInv
<1> USE DEF TypeOK, Unmade
<1>2. ASSUME NEW k \in Jobs, Request(k) \/ Refuse(k) \/ Abandon(k) \/ DeleteJob(k)
      PROVE  submit'[j] \notin Unmade
  BY <1>1, <1>2 DEF Request, ReadCache, InsertQueued, InsertCached, Charge, CreditsExhausted,
              RemoveRefused, ChargeWithoutRow, HashQueued, Push, Refuse, Abandon, DeleteJob,
              Submit, requests
<1>3. ASSUME NEW t \in Tasks, \/ Process(t) \/ Cancel(t) \/ DbError(t) \/ RedisError(t)
                              \/ EndTaskWithoutLrem(t)
      PROVE  submit'[j] \notin Unmade
  BY <1>1, <1>3, TaskLists
<1>4. CASE Loop \/ RecoveryFails \/ Stop \/ Crash \/ ReapSlot \/ (\E t \in Tasks : Pop(t))
           \/ \E i \in Inputs : ExpireCache(i)
  BY <1>1, <1>4 DEF Loop, StartWorker, Requeue, Discard, LeaveLoop, Exit, RecoveryFails, Stop, Crash,
                    ReapSlot, Pop, ExpireCache, requests
<1>5. CASE UNCHANGED vars
  BY <1>5 DEF vars, requests
<1>6. QED
  BY <1>2, <1>3, <1>4, <1>5 DEF Next

PromiseInv == StreamInv /\ OutcomeInv /\ SessionInv

\* Every step of the system keeps it all.
LEMMA PromiseStep ==
  ASSUME PromiseInv, StoresAnswer, [StreamNext]_streamVars
  PROVE  PromiseInv'
<1>1. StreamInv' /\ IInv /\ HashInv /\ ClientInv /\ OutcomeInv /\ SessionInv
  BY StreamStep DEF PromiseInv, StreamInv
<1>2. ASSUME [Next]_vars, UNCHANGED client
      PROVE  OutcomeInv' /\ SessionInv'
  <2>1. OutcomeInv'
    BY <1>1, <1>2, OutcomeStep
  <2>2. reading = "streaming" /\ ~doubled' => about \in Jobs /\ ~doubled
    BY <1>1, <1>2, DoubledStep DEF IInv, ClientInv
  <2>3. SessionInv'
    BY <1>1, <1>2, <2>2, MadeStep DEF client, SessionInv
  <2>4. QED
    BY <2>1, <2>3
<1>3. ASSUME Client, UNCHANGED pipeline
      PROVE  OutcomeInv' /\ SessionInv'
  <2>1. OutcomeInv' /\ [Next]_vars
    BY <1>1, <1>3, OutcomeStep DEF pipeline
  <2>2. UNCHANGED <<submit, doubled>>
    BY <1>3 DEF pipeline, vars, requests, ghosts
  <2>3. CASE \E j \in Followed : OpenStream(j) \/ GetHash(j)
    <3>1. \A j \in Followed : ~doubled /\ row[j] # "none" => submit[j] \notin Unmade
      BY <1>1, FollowedAssumption DEF OutcomeInv, RecordsInv
    <3>2. QED
      BY <1>1, <2>1, <2>2, <2>3, <3>1 DEF OpenStream, GetHash, SessionInv
  <2>4. CASE Poll \/ GetRow \/ Leave
    BY <1>1, <2>1, <2>2, <2>4 DEF Poll, GetRow, Leave, SessionInv
  <2>5. QED
    BY <1>3, <2>1, <2>3, <2>4 DEF Client
<1>4. ASSUME Forget, UNCHANGED client
      PROVE  OutcomeInv' /\ SessionInv'
  BY <1>1, <1>4, ForgetKeeps, OutcomeForget DEF client, SessionInv
<1>5. QED
  BY <1>1, <1>2, <1>3, <1>4 DEF PromiseInv, StreamNext, streamVars, client, vars
-----------------------------------------------------------------------------
(* The refinement, step by step. *)

\* A step that changes nothing a client can tell.
LEMMA Untold ==
  ASSUME UNCHANGED <<usage, about, told, answer>>, \A j \in Jobs : StateOf(j)' = StateOf(j)
  PROVE  UNCHANGED Promise!vars
BY DEF Promise!vars, Promise!client

\* One job changes its state,
LEMMA Moved ==
  ASSUME UNCHANGED <<usage, client>>, NEW k \in Jobs, NEW from, NEW to,
         StateOf(k) = from, StateOf(k)' = to, \A j \in Jobs \ {k} : StateOf(j)' = StateOf(j)
  PROVE  Promise!Move(k, from, to)
BY DEF client, Promise!Move, Promise!client

\* ... or its usage record,
LEMMA Booked ==
  ASSUME UNCHANGED client, NEW k \in Jobs, usage \in [Jobs -> Usages], NEW u,
         usage' = [usage EXCEPT ![k] = u], \A j \in Jobs : StateOf(j)' = StateOf(j)
  PROVE  Promise!Book(k, usage[k], u)
BY DEF client, Promise!Book, Promise!client

\* ... or jobs are gone.
LEMMA Dropped ==
  ASSUME UNCHANGED <<usage, client>>, \A j \in Jobs : StateOf(j)' \in {StateOf(j), "gone"}
  PROVE  Promise!Drop
<1> DEFINE gone == {j \in Jobs : StateOf(j)' = "gone"}
           states == [j \in Jobs |-> StateOf(j)]
<1>1. states' = [j \in Jobs |-> IF j \in gone THEN "gone" ELSE states[j]]
  OBVIOUS
<1>2. gone \in SUBSET Jobs
  OBVIOUS
<1>3. QED
  BY <1>1, <1>2 DEF client, Promise!Drop, Promise!client

\* What a request does is its part of the promise: it makes the job, pays for it,
\* or leaves none behind.
LEMMA RequestKeepsPromise ==
  ASSUME TypeOK, ChargedInv, CopiedInv, RecordsInv, UNCHANGED client, NEW k \in Jobs,
         Request(k) \/ Refuse(k) \/ Abandon(k) \/ DeleteJob(k)
  PROVE  [Promise!Next]_Promise!vars
<1>1. \A j \in Jobs \ {k} : StateOf(j)' = StateOf(j)
  BY RequestLists DEF StateOf
<1>2. /\ row[k] \in Statuses
      /\ submit[k] \in Unmade => row[k] = "none"
      /\ submit[k] \in Enqueued => row[k] \in {"queued", "none"}
      /\ submit[k] = "copied" => row[k] \in {"completed", "none"}
      /\ submit[k] \in {"inserted", "copied"} => usage[k] = "none"
  BY DEF TypeOK, ChargedInv, CopiedInv, RecordsInv
<1> USE DEF TypeOK, StateOf, Submit, Unmade, Enqueued, requests, database
<1>3. CASE InsertQueued(k) \/ InsertCached(k)
  <2>1. /\ StateOf(k) = "new" /\ StateOf(k)' \in {"queued", "completed"}
        /\ UNCHANGED usage
    BY <1>2, <1>3 DEF InsertQueued, InsertCached
  <2>2. Promise!Move(k, "new", "queued") \/ Promise!Move(k, "new", "completed")
    BY <1>1, <2>1, Moved
  <2>3. Promise!Create(k)
    BY <2>2 DEF Promise!Create
  <2>4. QED
    BY <2>3 DEF Promise!Next, Promise!Work
<1>4. CASE Charge(k)
  <2>1. StateOf(k)' = StateOf(k) /\ usage[k] = "none"
    BY <1>2, <1>4 DEF Charge
  <2>2. CASE submit[k] = "inserted"
    <3>1. StateOf(k) = "queued" /\ usage' = [usage EXCEPT ![k] = "reserved"]
      BY <1>2, <1>4, <2>2 DEF Charge
    <3>2. Promise!Book(k, "none", "reserved")
      BY <1>1, <2>1, <3>1, Booked
    <3>3. Promise!Reserve(k)
      BY <3>1, <3>2 DEF Promise!Reserve
    <3>4. QED
      BY <3>3 DEF Promise!Next, Promise!Work
  <2>3. CASE submit[k] = "copied"
    <3>1. StateOf(k) = "completed" /\ usage' = [usage EXCEPT ![k] = "completed"]
      BY <1>2, <1>4, <2>3 DEF Charge
    <3>2. Promise!Book(k, "none", "completed")
      BY <1>1, <2>1, <3>1, Booked
    <3>3. Promise!PayCopy(k)
      BY <3>1, <3>2 DEF Promise!PayCopy
    <3>4. QED
      BY <3>3 DEF Promise!Next, Promise!Work
  <2>4. QED
    BY <1>4, <2>2, <2>3 DEF Charge
<1>5. CASE ReadCache(k) \/ CreditsExhausted(k) \/ ChargeWithoutRow(k) \/ HashQueued(k) \/ Push(k)
  <2>1. StateOf(k)' = StateOf(k) /\ UNCHANGED usage
    BY <1>2, <1>5 DEF ReadCache, CreditsExhausted, ChargeWithoutRow, HashQueued, Push
  <2>2. QED
    BY <1>1, <2>1, Untold DEF client
<1>6. CASE Refuse(k) \/ RemoveRefused(k) \/ Abandon(k) \/ DeleteJob(k)
  <2>1. StateOf(k)' \in {StateOf(k), "gone"} /\ UNCHANGED usage
    BY <1>2, <1>6 DEF Refuse, RemoveRefused, Abandon, DeleteJob, InFlight
  <2>2. QED
    BY <1>1, <2>1, Dropped DEF Promise!Next
<1>7. QED
  BY <1>3, <1>4, <1>5, <1>6 DEF Request

\* What a task does is the rest of it: credits are reserved while it works.
LEMMA TaskKeepsPromise ==
  ASSUME TypeOK, TasksInv, KnownAccepted, ChargedInv, PaidInv, RecordsInv, HashInv, WorkInv,
         ~doubled, UNCHANGED client, NEW t \in Tasks, Process(t) \/ Cancel(t)
  PROVE  [Promise!Next]_Promise!vars
<1> PICK j \in Jobs : j = tjob[t]
  BY TaskRows
<1>1. /\ row[j] \in Statuses /\ usage[j] \in Usages
      /\ submit[j] = "accepted" /\ submit' = submit
      /\ \A k \in Jobs \ {j} : row'[k] = row[k]
      /\ usage[j] # "none"
  <2>1. submit' = submit /\ \A k \in Jobs \ {j} : row'[k] = row[k]
    BY TaskRows, TaskLists
  <2>2. QED
    BY <2>1 DEF TypeOK, KnownAccepted, Known, Accepted, ChargedInv
<1>2. /\ StateOf(j) = IF row[j] = "none" THEN "gone" ELSE row[j]
      /\ StateOf(j)' = IF row'[j] = "none" THEN "gone" ELSE row'[j]
      /\ \A k \in Jobs \ {j} : StateOf(k)' = StateOf(k)
  BY <1>1 DEF StateOf
<1>3. /\ usage[j] \in {"reserved", "completed", "refunded"}
      /\ usage[j] = "completed" => row[j] \in {"completed", "none"}
      /\ usage[j] = "refunded" => row[j] \in {"failed", "none"}
  BY <1>1 DEF RecordsInv, PaidInv, Usages
<1>4. CASE UNCHANGED <<row, usage>>
  BY <1>2, <1>4, Untold DEF client
<1>5. CASE MarkRow(t)
  <2>1. UNCHANGED usage /\ \/ UNCHANGED row
                           \/ row[j] = "queued" /\ row'[j] = "processing"
    BY <1>1, <1>5 DEF MarkRow, RowWith, TypeOK
  <2>2. CASE row[j] = "queued" /\ row'[j] = "processing"
    <3>1. Promise!Move(j, "queued", "processing")
      BY <1>1, <1>2, <2>1, <2>2, Moved
    <3>2. Promise!Start(j)
      BY <1>3, <2>2, <3>1 DEF Promise!Start
    <3>3. QED
      BY <1>1, <3>2 DEF Promise!Next, Promise!Work
  <2>3. QED
    BY <1>4, <2>1, <2>2
<1>6. CASE Complete(t)
  <2>1. UNCHANGED usage /\ \/ row' = row
                           \/ row[j] = "processing" /\ row'[j] = "completed"
    BY <1>1, <1>6 DEF Complete, RowWith, Task, TypeOK, WorkInv
  <2>2. CASE row[j] = "processing" /\ row'[j] = "completed"
    <3>1. Promise!Move(j, "processing", "completed")
      BY <1>1, <1>2, <2>1, <2>2, Moved
    <3>2. Promise!Complete(j)
      BY <1>3, <2>2, <3>1 DEF Promise!Complete
    <3>3. QED
      BY <1>1, <3>2 DEF Promise!Next, Promise!Work
  <2>3. QED
    BY <1>4, <2>1, <2>2
<1>7. CASE FailRow(t)
  <2>1. UNCHANGED usage /\ \/ row' = row
                           \/ row[j] \in {"queued", "processing"} /\ row'[j] = "failed"
    BY <1>1, <1>7 DEF FailRow, RowWith, Task, TypeOK, WorkInv, Statuses, Terminal
  <2>2. CASE row[j] \in {"queued", "processing"} /\ row'[j] = "failed"
    <3>1. Promise!Move(j, "queued", "failed") \/ Promise!Move(j, "processing", "failed")
      BY <1>1, <1>2, <2>1, <2>2, Moved
    <3>2. Promise!Fail(j)
      BY <1>3, <2>2, <3>1 DEF Promise!Fail
    <3>3. QED
      BY <1>1, <3>2 DEF Promise!Next, Promise!Work
  <2>3. QED
    BY <1>4, <2>1, <2>2
<1>8. CASE Settle(t)
  <2>1. UNCHANGED row /\ \/ usage' = usage
                         \/ /\ row[j] = "completed" /\ usage[j] = "reserved"
                            /\ usage' = [usage EXCEPT ![j] = "completed"]
    BY <1>1, <1>3, <1>8 DEF Settle, UsageWith, Task, TypeOK, PaidInv
  <2>2. CASE /\ row[j] = "completed" /\ usage[j] = "reserved"
             /\ usage' = [usage EXCEPT ![j] = "completed"]
    <3>1. Promise!Book(j, "reserved", "completed")
      BY <1>1, <1>2, <2>1, <2>2, Booked DEF TypeOK
    <3>2. Promise!Keep(j)
      BY <1>2, <2>2, <3>1 DEF Promise!Keep
    <3>3. QED
      BY <1>1, <3>2 DEF Promise!Next, Promise!Work
  <2>3. QED
    BY <1>4, <2>1, <2>2
<1>9. CASE FailRefund(t)
  <2>1. UNCHANGED row /\ \/ usage' = usage
                         \/ /\ row[j] = "failed" /\ usage[j] = "reserved"
                            /\ usage' = [usage EXCEPT ![j] = "refunded"]
    BY <1>1, <1>3, <1>9 DEF FailRefund, UsageWith, Task, TypeOK, PaidInv, BeforeRefund
  <2>2. CASE /\ row[j] = "failed" /\ usage[j] = "reserved"
             /\ usage' = [usage EXCEPT ![j] = "refunded"]
    <3>1. Promise!Book(j, "reserved", "refunded")
      BY <1>1, <1>2, <2>1, <2>2, Booked DEF TypeOK
    <3>2. Promise!Return(j)
      BY <1>2, <2>2, <3>1 DEF Promise!Return
    <3>3. QED
      BY <1>1, <3>2 DEF Promise!Next, Promise!Work
  <2>3. QED
    BY <1>4, <2>1, <2>2
<1>10. QED
  BY <1>4, <1>5, <1>6, <1>7, <1>8, <1>9, TaskBooks

\* What the rest of the pipeline does a client cannot tell, but that requests end
\* with the process.
LEMMA PipelineKeepsPromise ==
  ASSUME PromiseInv, StoresAnswer, ~doubled', [Next]_vars, UNCHANGED client
  PROVE  [Promise!Next]_Promise!vars
<1>1. /\ TypeOK /\ TasksInv /\ KnownAccepted /\ ChargedInv /\ CopiedInv /\ PaidInv
      /\ HashInv /\ OutcomeInv
  BY DEF PromiseInv, StreamInv, IInv
<1>2. ~doubled /\ RecordsInv /\ WorkInv
  BY <1>1, DoubledStep DEF OutcomeInv
<1>3. CASE \E k \in Jobs : Request(k) \/ Refuse(k) \/ Abandon(k) \/ DeleteJob(k)
  BY <1>1, <1>2, <1>3, RequestKeepsPromise
<1>4. CASE \E t \in Tasks : Process(t) \/ Cancel(t)
  BY <1>1, <1>2, <1>4, TaskKeepsPromise
<1>5. \A t \in Tasks : ~DbError(t) /\ ~RedisError(t) /\ ~EndTaskWithoutLrem(t)
  BY DEF StoresAnswer, DbError, RedisError, EndTaskWithoutLrem, Fault
<1>6. CASE Crash
  <2>1. UNCHANGED usage /\ \A j \in Jobs : StateOf(j)' \in {StateOf(j), "gone"}
    BY <1>1, <1>6 DEF Crash, StateOf, InFlight, TypeOK, database
  <2>2. QED
    BY <2>1, Dropped DEF Promise!Next
<1>7. CASE \/ Loop \/ RecoveryFails \/ Stop \/ ReapSlot \/ (\E t \in Tasks : Pop(t))
           \/ (\E i \in Inputs : ExpireCache(i)) \/ UNCHANGED vars
  <2>1. UNCHANGED <<submit, row, usage>>
    BY <1>7 DEF Loop, StartWorker, Requeue, Discard, LeaveLoop, Exit, RecoveryFails, Stop, ReapSlot, Pop,
                ExpireCache, vars, requests, database
  <2>2. QED
    BY <2>1, Untold DEF StateOf, client
<1>8. QED
  BY <1>3, <1>4, <1>5, <1>6, <1>7 DEF Next

\* A stream announces what has happened, and in order.
LEMMA PollTells ==
  ASSUME PromiseInv, ~doubled, Poll, UNCHANGED pipeline
  PROVE  [Promise!Next]_Promise!vars
<1>1. /\ TypeOK /\ HashInv /\ ClientInv /\ ClientTypeOK /\ RecordsInv /\ SessionInv
  BY DEF PromiseInv, StreamInv, IInv, OutcomeInv
<1>2. /\ about \in Jobs /\ hash[about] \in Statuses /\ row[about] \in Statuses
      /\ told' = Reported(about) /\ told \in Statuses \ Terminal /\ answer = Missing
      /\ UNCHANGED <<about, answer>>
  BY <1>1 DEF Poll, ClientInv, ClientTypeOK, SessionInv, TypeOK
<1>3. UNCHANGED usage /\ \A j \in Jobs : StateOf(j)' = StateOf(j)
  BY DEF pipeline, vars, requests, database, StateOf
<1>4. CASE told' = told
  BY <1>2, <1>3, <1>4, Untold
<1>5. CASE told' # told
  <2>1. told' \in {"queued", "processing", "completed", "failed"}
    BY <1>2 DEF Reported, Statuses, Terminal
  <2>2. told = "processing" => told' \in Terminal
    BY <1>1, <1>2, <1>5 DEF Poll, Reported, ClientInv, Terminal
  <2>3. /\ Promise!Rank("none") = 0 /\ Promise!Rank("queued") = 1
        /\ Promise!Rank("processing") = 2
        /\ Promise!Rank("completed") = 3 /\ Promise!Rank("failed") = 3
    BY DEF Promise!Rank, Promise!Ends
  <2>4. Promise!Rank(told') > Promise!Rank(told)
    BY <1>2, <1>5, <2>1, <2>2, <2>3 DEF Statuses, Terminal
  <2>5. submit[about] \notin Unmade
    BY <1>1 DEF Poll, SessionInv
  <2>6. /\ hash[about] = "processing" => row[about] # "queued"
        /\ hash[about] \in Terminal => row[about] \in {hash[about], "none"}
    BY <1>1, <1>2 DEF RecordsInv, HashInv
  <2>7. StateOf(about) = IF row[about] = "none" THEN "gone" ELSE row[about]
    BY <2>5 DEF StateOf, Unmade
  <2>8. Promise!Truthful(told', StateOf(about))
    BY <1>2, <2>1, <2>6, <2>7 DEF Promise!Truthful, Promise!Ends, Reported, Statuses, Terminal
  <2>9. Promise!Tell
    BY <1>2, <1>3, <2>4, <2>8 DEF Promise!Tell, Promise!Nothing, Missing
  <2>10. QED
    BY <2>9 DEF Promise!Next
<1>6. QED
  BY <1>4, <1>5

\* What is answered is what the row says, with all there is if the end was told.
LEMMA GetRowAnswers ==
  ASSUME PromiseInv, ~doubled, GetRow, UNCHANGED pipeline
  PROVE  [Promise!Next]_Promise!vars
<1>1. /\ TypeOK /\ HashInv /\ ClientInv /\ ClientTypeOK /\ RecordsInv /\ SessionInv
  BY DEF PromiseInv, StreamInv, IInv, OutcomeInv
<1>2. /\ about \in Jobs /\ row[about] \in Statuses /\ answer = Missing
      /\ UNCHANGED <<about, told>>
  BY <1>1 DEF GetRow, ClientInv, SessionInv, TypeOK
<1>3. UNCHANGED usage /\ \A j \in Jobs : StateOf(j)' = StateOf(j)
  BY DEF pipeline, vars, requests, database, StateOf
<1>4. /\ answer'.status = row[about]
      /\ answer'.parts # {} => about \in result
  BY DEF GetRow
<1>5. /\ answer'.status = IF StateOf(about) \in {"new", "gone"} THEN "none" ELSE StateOf(about)
      /\ StateOf(about) = "gone" <=> row[about] = "none" /\ submit[about] \notin Unmade
  BY <1>2, <1>4 DEF StateOf, Statuses, Terminal, Unmade
<1>6. answer'.parts # {} => StateOf(about) = "completed"
  BY <1>1, <1>2, <1>4 DEF RecordsInv, StateOf
<1>7. told = "completed" /\ StateOf(about) # "gone" => answer'.parts = {"result", "score"}
  <2> SUFFICES ASSUME told = "completed", StateOf(about) # "gone"
               PROVE  about \in result /\ seen = "completed"
    BY DEF GetRow
  <2>1. hash[about] = "completed" /\ seen = "completed"
    BY <1>1 DEF GetRow, ClientInv, Terminal
  <2>2. submit[about] \notin Unmade
    BY <1>1, <1>2, <2>1 DEF HashInv, Unmade
  <2>3. row[about] = "completed"
    BY <1>1, <1>2, <1>5, <2>1, <2>2 DEF HashInv, Terminal
  <2>4. QED
    BY <1>1, <1>2, <2>1, <2>3 DEF HashInv
<1>8. Promise!Ask
  BY <1>2, <1>3, <1>5, <1>6, <1>7 DEF Promise!Ask, Promise!Nothing, Missing
<1>9. QED
  BY <1>8 DEF Promise!Next

\* And so does everything else the client does.
LEMMA ClientKeepsPromise ==
  ASSUME PromiseInv, ~doubled, Client, UNCHANGED pipeline
  PROVE  [Promise!Next]_Promise!vars
<1>1. UNCHANGED usage /\ \A j \in Jobs : StateOf(j)' = StateOf(j)
  BY DEF pipeline, vars, requests, database, StateOf
<1>2. CASE \E j \in Followed : OpenStream(j) \/ GetHash(j)
  <2>1. /\ UNCHANGED <<told, answer>>
        /\ about' = about \/ (about = NoJob /\ about' \in Jobs)
    BY <1>2, FollowedAssumption DEF OpenStream, GetHash, PromiseInv, SessionInv
  <2>2. CASE about' = about
    BY <1>1, <2>1, <2>2, Untold
  <2>3. CASE about = NoJob /\ about' \in Jobs
    BY <1>1, <2>1, <2>3 DEF Promise!Follow, Promise!Next
  <2>4. QED
    BY <2>1, <2>2, <2>3
<1>3. CASE Leave
  BY <1>1, <1>3 DEF Leave, Promise!Leave, Promise!Nothing, Missing, Promise!Next
<1>4. QED
  BY <1>2, <1>3, PollTells, GetRowAnswers DEF Client

\* At the start nothing is promised yet.
LEMMA PromiseInit == StreamInit => PromiseInv /\ Promise!Init
<1> SUFFICES ASSUME StreamInit
             PROVE  PromiseInv /\ Promise!Init
  OBVIOUS
<1>1. StreamInv
  BY StreamInvInit
<1>2. OutcomeInv /\ SessionInv
  BY DEF StreamInit, Init, NoClient, OutcomeInv, RecordsInv, WorkInv, Unmade, Enqueued,
         SessionInv, Missing
<1>3. Promise!Init
  BY DEF StreamInit, Init, NoClient, StateOf, Missing, Promise!Init, Promise!Nothing
<1>4. QED
  BY <1>1, <1>2, <1>3 DEF PromiseInv

\* While PostgreSQL and Redis answer, recovery is not killed and no
\* push is sent twice, the system implements JobPromise: a job is worked on only
\* with its credits reserved, ends once, keeps or returns them accordingly, does
\* not come back once deleted, and its client is told what has happened, in order,
\* and the same again if it asks.
THEOREM PromiseKept ==
  ASSUME StoresAnswer
  PROVE  StreamSpec /\ []~doubled => KeepsPromise
<1>1. PromiseInv /\ [StreamNext]_streamVars => PromiseInv'
  BY PromiseStep
<1>2. PromiseInv /\ ~doubled /\ ~doubled' /\ [StreamNext]_streamVars
        => [Promise!Next]_Promise!vars
  <2> SUFFICES ASSUME PromiseInv, ~doubled, ~doubled', [StreamNext]_streamVars
               PROVE  [Promise!Next]_Promise!vars
    OBVIOUS
  <2>1. CASE [Next]_vars /\ UNCHANGED client
    BY <2>1, PipelineKeepsPromise
  <2>2. CASE Client /\ UNCHANGED pipeline
    BY <2>2, ClientKeepsPromise
  <2>3. CASE Forget /\ UNCHANGED client
    <3>1. UNCHANGED <<submit, row, usage>>
      BY <2>3, ForgetKeeps, OutcomeForget DEF PromiseInv, StreamInv
    <3>2. QED
      BY <2>3, <3>1, Untold DEF StateOf, client
  <2>4. QED
    BY <2>1, <2>2, <2>3 DEF StreamNext, streamVars, client, vars
<1>3. QED
  BY PromiseInit, <1>1, <1>2, PTL DEF StreamSpec, KeepsPromise, Promise!Spec

\* Without kills and repeated commands nothing is doubled: shutdowns in time or
\* not, requests that end early and engines that fail break no promise.
THEOREM PromiseKeptUnlessKilled ==
  ASSUME Faults \cap {"db", "redis", "crash", "resend"} = {}
  PROVE  StreamSpec => KeepsPromise
<1>1. StoresAnswer /\ Faults \cap {"crash", "resend", "redis"} = {}
  BY DEF StoresAnswer
<1>2. StreamInv /\ ~doubled /\ [StreamNext]_streamVars => ~doubled'
  <2> SUFFICES ASSUME StreamInv, ~doubled, [StreamNext]_streamVars
               PROVE  ~doubled'
    OBVIOUS
  <2>1. doubled \in BOOLEAN
    BY Zenon DEF StreamInv, IInv, TypeOK
  <2>2. CASE [Next]_vars
    BY <1>1, <2>1, <2>2, SingleStep
  <2>3. CASE Forget
    BY <2>3, ForgetKeeps DEF StreamInv
  <2>4. QED
    BY <2>2, <2>3 DEF StreamNext, streamVars, pipeline
<1>3. StreamInit => ~doubled
  BY DEF StreamInit, Init
<1>4. StreamSpec => []StreamInv
  BY <1>1, StreamInvariant, PTL
<1>5. StreamSpec => []~doubled
  BY <1>2, <1>3, <1>4, PTL DEF StreamSpec
<1>6. QED
  BY <1>1, <1>5, PromiseKept, PTL
=============================================================================
