------------------------------- MODULE Schema -------------------------------
(***************************************************************************)
(* What the migrations of app/migrations promise: the schema goes through  *)
(* its versions one by one, forward only, whoever migrates it.             *)
(***************************************************************************)
EXTENDS Naturals

CONSTANT Last     \* the number of migrations that exist

VARIABLE level    \* how many of them the database has

Init == level = 0

Next == level < Last /\ level' = level + 1

Spec == Init /\ [][Next]_level
=============================================================================
