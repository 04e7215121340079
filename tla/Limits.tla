------------------------------- MODULE Limits -------------------------------
(***************************************************************************)
(* The rate limiter: check_limits and _hit (ratelimit.py) as guard         *)
(* (routes_v1.py) calls them.  A request increments four counters in turn, *)
(* the one of everybody, two of its user and the one of its address, and   *)
(* every INCR and EXPIRE is an await at which other requests go on.        *)
(*                                                                         *)
(* A counter belongs to a window of time, a minute or a day, whose number  *)
(* is part of its key: with a new window begins a new counter, and the     *)
(* model forgets the old one.  Time is counted in ticks from which         *)
(* windows and expiries are made.                                          *)
(***************************************************************************)
EXTENDS Naturals, Sequences, FiniteSets

CONSTANTS
  Clients,      \* each sends one request after the other
  Counters,     \* global, and those of each user and address
  CountersOf,   \* the four counters of a client, in the order of check_limits
  WindowOf,     \* "minute" or "day"
  Limit,        \* settings.rate_limit_...
  Length,       \* ticks in a minute, in a day
  Ttl,          \* ticks until a counter expires, 120 s and DAY_TTL
  MaxFaults     \* failures and lost answers, a bound of the model

Windows == {"minute", "day"}

ASSUME LimitsAssumption ==
  /\ CountersOf \in [Clients -> Seq(Counters)]
  /\ WindowOf \in [Counters -> Windows]
  /\ Limit \in [Counters -> Nat]
  /\ Length \in [Windows -> Nat \ {0}]
  /\ Ttl \in [Windows -> Nat]
  /\ \A w \in Windows : Ttl[w] > Length[w]
  /\ MaxFaults \in Nat

VARIABLES
  count,    \* the value of each counter of this window, up to Limit + 1
  ttl,      \* ticks until it expires, 0 if it does not
  left,     \* ticks until each window ends
  pc,       \* where each client is in guard
  at,       \* how many counters it has incremented
  costly,   \* its request may not go on without the limiter
  over,     \* one of the counters was above its limit
  same,     \* its next command is for the counter of a window that still lasts
  passed,   \* increments of this window that stayed within the limit
  faults    \* failures so far

counters == <<count, ttl, passed>>
client   == <<pc, at, costly, over, same>>
vars     == <<counters, left, client, faults>>

TypeOK ==
  /\ count \in [Counters -> Nat]
  /\ ttl \in [Counters -> Nat]
  /\ left \in [Windows -> Nat] /\ \A w \in Windows : left[w] \in 1..Length[w]
  /\ pc \in [Clients -> {"idle", "hit", "again", "expire", "go", "limited", "unavailable"}]
  /\ at \in [Clients -> Nat]
  /\ costly \in [Clients -> BOOLEAN]
  /\ over \in [Clients -> BOOLEAN]
  /\ same \in [Clients -> BOOLEAN]
  /\ passed \in [Counters -> Nat]
  /\ faults \in 0..MaxFaults

Init ==
  /\ count = [k \in Counters |-> 0]
  /\ ttl = [k \in Counters |-> 0]
  /\ left = Length
  /\ pc = [c \in Clients |-> "idle"]
  /\ at = [c \in Clients |-> 0]
  /\ costly = [c \in Clients |-> FALSE]
  /\ over = [c \in Clients |-> FALSE]
  /\ same = [c \in Clients |-> FALSE]
  /\ passed = [k \in Counters |-> 0]
  /\ faults = 0

-----------------------------------------------------------------------------
Goto(c, label) == pc' = [pc EXCEPT ![c] = label]

\* Where the next command is for the counter that was incremented last.
Repeating == {"again", "expire"}

Fault == faults < MaxFaults /\ faults' = faults + 1

\* The counter that c increments next, and the one it incremented last.
Upcoming(c) == CountersOf[c][at[c] + 1]
Latest(c)   == CountersOf[c][at[c]]

\* n <= limit.
Allowed(n, k) == n <= Limit[k]

\* Variant: no counter is given an expiry.
NeverExpires(n) == FALSE

\* if n == 1: the first increment is followed by an EXPIRE.
First(n) == n = 1

\* Variant: whatever the endpoint, guard lets the request go on.
FailOpen(c) == "go"

\* except Exception: 503 if costly, else the request goes on.
WithoutLimiter(c) == IF costly[c] THEN "unavailable" ELSE "go"

\* Variant: an expiry shorter than the window.
TtlTooShort(k) == 1

\* ttl if ":day" in key else 120.
TtlOf(k) == Ttl[WindowOf[k]]

-----------------------------------------------------------------------------
\* A request reaches guard; the one before has been answered.
Begin(c) ==
  /\ pc[c] \in {"idle", "go", "limited", "unavailable"}
  /\ \E b \in BOOLEAN : costly' = [costly EXCEPT ![c] = b]
  /\ at' = [at EXCEPT ![c] = 0]
  /\ over' = [over EXCEPT ![c] = FALSE]
  /\ Goto(c, "hit")
  /\ UNCHANGED <<counters, left, same, faults>>

\* An INCR of k and its answer.  Beyond the limit the model counts one only.
Increment(c, k) ==
  LET n == count[k] + 1
  IN  /\ count' = [count EXCEPT ![k] = IF @ <= Limit[k] THEN n ELSE @]
      /\ over' = [over EXCEPT ![c] = @ \/ ~Allowed(n, k)]
      /\ passed' = IF Allowed(n, k) THEN [passed EXCEPT ![k] = @ + 1] ELSE passed
      /\ Goto(c, IF First(n) THEN "expire" ELSE "hit")

\* The answer is lost, and the client of Redis sends the command again.
LosesAnswer(c, k) ==
  /\ Fault
  /\ count' = [count EXCEPT ![k] = IF @ <= Limit[k] THEN @ + 1 ELSE @]
  /\ Goto(c, "again")
  /\ UNCHANGED <<over, passed>>

\* INCR of the next counter.
Incr(c) ==
  /\ pc[c] = "hit"
  /\ at[c] < Len(CountersOf[c])
  /\ \/ Increment(c, Upcoming(c)) /\ UNCHANGED faults
     \/ LosesAnswer(c, Upcoming(c))
  /\ at' = [at EXCEPT ![c] = @ + 1]
  /\ same' = [same EXCEPT ![c] = pc'[c] \in Repeating]
  /\ UNCHANGED <<ttl, left, costly>>

\* The INCR again, of the same key: its window may have ended.
IncrAgain(c) ==
  /\ pc[c] = "again"
  /\ IF same[c]
     THEN Increment(c, Latest(c))
     ELSE /\ over' \in {over, [over EXCEPT ![c] = TRUE]}
          /\ Goto(c, "hit")
          /\ UNCHANGED <<count, passed>>
  /\ same' = [same EXCEPT ![c] = @ /\ pc'[c] \in Repeating]
  /\ UNCHANGED <<ttl, left, at, costly, faults>>

\* EXPIRE, on the key that was incremented.
Expire(c) ==
  /\ pc[c] = "expire"
  /\ ttl' = IF same[c] THEN [ttl EXCEPT ![Latest(c)] = TtlOf(Latest(c))] ELSE ttl
  /\ Goto(c, "hit")
  /\ same' = [same EXCEPT ![c] = FALSE]
  /\ UNCHANGED <<count, passed, left, at, costly, over, faults>>

\* All counters were incremented: check_limits returns, guard decides.
Decide(c) ==
  /\ pc[c] = "hit"
  /\ at[c] = Len(CountersOf[c])
  /\ Goto(c, IF over[c] THEN "limited" ELSE "go")
  /\ UNCHANGED <<counters, left, at, costly, over, same, faults>>

\* A command fails, after it took effect or before; the increments before it stay.
RedisFails(c) ==
  /\ pc[c] \in {"hit", "again", "expire"}
  /\ Fault
  /\ Goto(c, WithoutLimiter(c))
  /\ same' = [same EXCEPT ![c] = FALSE]
  /\ UNCHANGED <<counters, left, at, costly, over>>

\* The request ends between two commands: its 30 s are over, or the process.
Abandon(c) ==
  /\ pc[c] \in {"hit", "again", "expire"}
  /\ Fault
  /\ Goto(c, "idle")
  /\ at' = [at EXCEPT ![c] = 0]
  /\ costly' = [costly EXCEPT ![c] = FALSE]
  /\ over' = [over EXCEPT ![c] = FALSE]
  /\ same' = [same EXCEPT ![c] = FALSE]
  /\ UNCHANGED <<counters, left>>

\* int(time.time() // 60) is about to change, or // 86400.
Ends(w) == left[w] = 1

\* A counter is gone when its window ends or it expires.
Gone(k) == Ends(WindowOf[k]) \/ ttl[k] = 1

\* Time passes.
Tick ==
  /\ left' = [w \in Windows |-> IF Ends(w) THEN Length[w] ELSE left[w] - 1]
  /\ count' = [k \in Counters |-> IF Gone(k) THEN 0 ELSE count[k]]
  /\ ttl' = [k \in Counters |-> IF Gone(k) \/ ttl[k] = 0 THEN 0 ELSE ttl[k] - 1]
  /\ passed' = [k \in Counters |-> IF Ends(WindowOf[k]) THEN 0 ELSE passed[k]]
  /\ same' = [c \in Clients |-> same[c] /\ ~Ends(WindowOf[Latest(c)])]
  /\ UNCHANGED <<pc, at, costly, over, faults>>

Next ==
  \/ \E c \in Clients : \/ Begin(c) \/ Incr(c) \/ IncrAgain(c) \/ Expire(c) \/ Decide(c)
                        \/ RedisFails(c) \/ Abandon(c)
  \/ Tick

Spec == Init /\ [][Next]_vars

-----------------------------------------------------------------------------
(* Properties. *)

\* In each window at most Limit requests get past a counter, whatever the order
\* of their commands, and no counter is lost before its window ends.
WindowLimit == \A k \in Counters : passed[k] <= Limit[k]

\* The first INCR of k was answered, and its EXPIRE comes next.
Expiring(c, k) == pc[c] = "expire" /\ same[c] /\ Latest(c) = k

\* A counter that nobody will give an expiry: every later INCR returns more than 1.
Forgotten(k) == count[k] > 0 /\ ttl[k] = 0 /\ \A c \in Clients : ~Expiring(c, k)

\* Counters expire, however their INCRs and EXPIREs interleave: each that stays in
\* Redis for ever is the work of a fault of its own, a first INCR that was sent
\* again or a request that ended between the two commands.
CountersExpire ==
  LET forgotten == {k \in Counters : Forgotten(k)}
  IN  IsFiniteSet(forgotten) /\ Cardinality(forgotten) <= faults

\* docs/endpoints.md: costly requests go on only if they were counted by every
\* counter and all allowed them; without Redis they are refused.
CostlyWasCounted ==
  \A c \in Clients : pc[c] = "go" /\ costly[c] =>
    at[c] = Len(CountersOf[c]) /\ ~over[c]
=============================================================================
