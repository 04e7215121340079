---------------------------- MODULE MCAdmission ----------------------------
(* Two clients of one user, beside a user who sends nothing: what becomes  *)
(* of the first one's jobs must leave room for the second.                 *)
EXTENDS Admission, TLC

CONSTANTS u1, u2, c1, c2

MCUsers == {u1, u2}
MCClients == {c1, c2}
MCUserOf == [c \in MCClients |-> u1]
=============================================================================
