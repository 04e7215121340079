------------------------------- MODULE Ledger -------------------------------
(***************************************************************************)
(* What app/credits.py promises of one user's balance: a charge checks it  *)
(* and takes its credits in one step, so that the credits in use never     *)
(* exceed the grant; a refund only ever gives credits back.                *)
(***************************************************************************)
EXTENDS Naturals

CONSTANT Granted   \* the user's free_credits
VARIABLE used      \* the sum of credits_used over the user's usage_records

Init == used = 0

Charge(c) ==
  /\ used + c <= Granted
  /\ used' = used + c

Refund == used' \in 0..used

Next == (\E c \in 0..Granted : Charge(c)) \/ Refund

Spec == Init /\ [][Next]_used
=============================================================================
