------------------------------ MODULE MCLimits ------------------------------
(* Two clients of one user behind one address.  A minute has two ticks and *)
(* a day four, so that a day ends with a minute, as it does, and not every *)
(* minute ends a day.                                                      *)
EXTENDS Limits, TLC

CONSTANTS c1, c2

MCClients == {c1, c2}
MCCounters == {"global", "min", "day", "ip"}
MCCountersOf == [c \in MCClients |-> <<"global", "min", "day", "ip">>]
MCWindowOf == [k \in MCCounters |-> IF k = "day" THEN "day" ELSE "minute"]
MCLimit == [k \in MCCounters |-> IF k \in {"global", "day"} THEN 2 ELSE 1]
MCLength == "minute" :> 2 @@ "day" :> 4
MCTtl == "minute" :> 4 @@ "day" :> 5

Alike == Permutations(MCClients)
=============================================================================
