------------------------------ MODULE MCDbPool ------------------------------
(* Three threads share pools of two connections.                           *)
EXTENDS DbPool

CONSTANTS t1, t2, t3

MCThreads == {t1, t2, t3}
=============================================================================
