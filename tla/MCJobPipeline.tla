---------------------------- MODULE MCJobPipeline ----------------------------
(* JobPipeline on two requests for the same input, so that one of them can *)
(* be answered from what the other left in the cache, or on one request    *)
(* and more faults.                                                        *)
EXTENDS JobPipeline

CONSTANTS j1, j2, text

MCJobs == {j1, j2}
MCOneJob == {j1}
MCInputs == {text}
MCInputOf == [j \in Jobs |-> text]
=============================================================================
