------------------------------ MODULE MCCredits ------------------------------
(* Four calls of charge on a grant that covers two or three of them: two   *)
(* for the same job, as a repeated call would be, one for another job and  *)
(* one for /v1/analyze, which has none.                                    *)
EXTENDS Credits, TLC

CONSTANTS r1, r2, r3, r4, j1, j2

MCRequests == {r1, r2, r3, r4}
MCJobs == {j1, j2}
MCJobOf == r1 :> j1 @@ r2 :> j1 @@ r3 :> j2 @@ r4 :> NoJob
MCCost == r1 :> 2 @@ r2 :> 2 @@ r3 :> 1 @@ r4 :> 2
=============================================================================
