------------------------------ MODULE MCStream ------------------------------
(* Stream on two requests for the same input, so that one of them can be   *)
(* answered from what the other left in the cache.                         *)
EXTENDS Stream

CONSTANTS j1, j2, text

MCJobs == {j1, j2}
MCFollowed == {j1}
MCInputs == {text}
MCInputOf == [j \in Jobs |-> text]
=============================================================================
