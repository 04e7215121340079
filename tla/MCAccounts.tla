----------------------------- MODULE MCAccounts -----------------------------
(* Three requests of two users, two of them on one server, over a table    *)
(* whose keys all begin with the same characters.                          *)
EXTENDS Accounts, TLC

CONSTANTS u1, u2, s1, s2, r1, r2, r3

MCUsers == {u1, u2}
MCServers == {s1, s2}
MCRequests == {r1, r2, r3}
MCServerOf == r1 :> s1 @@ r2 :> s1 @@ r3 :> s2
MCPrefixOf == [k \in Keys |-> "hm_"]

\* The users are alike, and so are the two requests of the first server.
Alike == Permutations({u1, u2}) \cup Permutations({r1, r2})
=============================================================================
