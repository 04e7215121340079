------------------------------- MODULE MCSlots -------------------------------
(* Slots on three tasks that compete for the slots of JobConcurrency. *)
EXTENDS Slots

CONSTANTS t1, t2, t3

MCTasks == {t1, t2, t3}
=============================================================================
