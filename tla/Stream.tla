------------------------------- MODULE Stream -------------------------------
(***************************************************************************)
(* A client that follows a job, beside the pipeline that works on it.  It  *)
(* streams (stream_job polls the Redis hash) and asks (get_job reads the   *)
(* hash and then the row).  Redis forgets a hash a day after its last      *)
(* write, and the worker purges the texts of jobs that ended a month ago.  *)
(*                                                                         *)
(* Time is not counted: a session of a client is over within minutes, so   *)
(* nothing it is about expires or is purged meanwhile.                     *)
(***************************************************************************)
EXTENDS JobPipeline

CONSTANT Followed      \* the jobs the client may follow

ASSUME FollowedAssumption == Followed \subseteq Jobs

VARIABLES
  reading,    \* where the client is
  about,      \* the job it follows
  told,       \* the status of the last event of the stream
  seen,       \* the hash that get_job has read
  answer      \* what get_job answered: the status, and what came with it

client == <<reading, about, told, seen, answer>>
pipeline == vars

Missing == [status |-> "none", parts |-> {}]
Answers == [status : Statuses, parts : SUBSET {"result", "score"}]

ClientTypeOK ==
  /\ TypeOK
  /\ reading \in {"idle", "streaming", "told", "getting", "answered"}
  /\ about \in Jobs \cup {NoJob}
  /\ told \in Statuses
  /\ seen \in Statuses
  /\ answer \in Answers

NoClient ==
  /\ reading = "idle"
  /\ about = NoJob
  /\ told = "none"
  /\ seen = "none"
  /\ answer = Missing

StreamInit == Init /\ NoClient

-----------------------------------------------------------------------------
(* stream_job *)

\* The row is there, or the answer is a 404 and no stream.
OpenStream(j) ==
  /\ Serving
  /\ reading = "idle"
  /\ row[j] # "none"
  /\ reading' = "streaming"
  /\ about' = j
  /\ UNCHANGED <<told, seen, answer>>

\* A job without a hash is reported as queued.
Reported(j) == IF hash[j] = "none" THEN "queued" ELSE hash[j]

\* An event if the status is another one; a final one ends the stream.
Poll ==
  /\ Serving
  /\ reading = "streaming"
  /\ told' = Reported(about)
  /\ reading' = IF told' \in Terminal THEN "told" ELSE "streaming"
  /\ UNCHANGED <<about, seen, answer>>

-----------------------------------------------------------------------------
(* get_job, of a client that was told something or of one that was not *)

GetHash(j) ==
  /\ Serving
  /\ \/ reading = "idle" /\ about' = j
     \/ reading = "told" /\ about = j /\ UNCHANGED about
  /\ reading' = "getting"
  /\ seen' = hash[j]
  /\ UNCHANGED <<told, answer>>

\* The status and the result are the row's; the score is in the hash that was
\* read before, and comes with a result only.
GetRow ==
  /\ reading = "getting"
  /\ reading' = "answered"
  /\ answer' = [status |-> row[about],
                parts  |-> {p \in {"result", "score"} :
                              about \in result /\ (p = "score" => seen = "completed")}]
  /\ seen' = "none"
  /\ UNCHANGED <<about, told>>

\* The client is content or has closed the connection, or the 120 s of the
\* stream are over: the rest of what it does is another session.
Leave ==
  /\ reading # "idle"
  /\ reading' = "idle"
  /\ about' = NoJob
  /\ told' = "none"
  /\ seen' = "none"
  /\ answer' = Missing

Client ==
  \/ \E j \in Followed : OpenStream(j) \/ GetHash(j)
  \/ Poll \/ GetRow \/ Leave
-----------------------------------------------------------------------------
(* What the stores forget *)

\* Nothing writes the hash of an ended job again, and a day has passed.
ExpireHash(j) ==
  /\ hash[j] \in Terminal
  /\ about # j
  /\ \A t \in Tasks : tjob[t] # j
  /\ hash' = [hash EXCEPT ![j] = "none"]
  /\ UNCHANGED <<cache, queue, processing, leaked, requests, database, process, ghosts>>

Ended(j) == row[j] \in Terminal

\* Variant: the age of the rows is not looked at.
PurgesEverythingEnded ==
  /\ worker \in {"run", "stopping"}
  /\ result' = result \ {j \in Jobs : Ended(j)}
  /\ UNCHANGED <<row, usage, requests, redis, process, ghosts>>

\* _purge_old_content, one UPDATE of the rows that ended before the retention
\* period; whatever else there was of such a job is gone by then.
PurgeOldContent ==
  /\ worker \in {"run", "stopping"}
  /\ \E old \in SUBSET {j \in result : /\ Ended(j)
                                       /\ hash[j] = "none" /\ submit[j] \notin InFlight
                                       /\ about # j /\ \A t \in Tasks : tjob[t] # j} :
       /\ old # {}
       /\ result' = result \ old
  /\ UNCHANGED <<row, usage, requests, redis, process, ghosts>>

Forget == PurgeOldContent \/ \E j \in Jobs : ExpireHash(j)
-----------------------------------------------------------------------------
StreamNext ==
  \/ Next /\ UNCHANGED client
  \/ Client /\ UNCHANGED pipeline
  \/ Forget /\ UNCHANGED client

streamVars == <<vars, client>>

\* An open stream is polled again, and the pipeline goes on.  Nothing is
\* assumed about deadlines, nor about how long a client stays.
StreamFairness ==
  /\ \A j \in Jobs : WF_streamVars(Request(j) /\ UNCHANGED client)
  /\ \A t \in Tasks : WF_streamVars(Process(t) /\ UNCHANGED client)
  /\ WF_streamVars((\E t \in Tasks : Pop(t)) /\ UNCHANGED client)
  /\ WF_streamVars(Loop /\ UNCHANGED client)
  /\ WF_streamVars(Poll /\ UNCHANGED pipeline)

StreamSpec == StreamInit /\ [][StreamNext]_streamVars /\ StreamFairness
-----------------------------------------------------------------------------
\* What a client can tell of a job: it is new until its request decides to insert
\* a row, and gone once there will be none any more.
StateOf(j) ==
  IF row[j] # "none" THEN row[j]
  ELSE IF submit[j] \in {"new", "miss", "hit"} THEN "new" ELSE "gone"

Promise == INSTANCE JobPromise
             WITH state <- [j \in Jobs |-> StateOf(j)], credits <- usage

\* The pipeline, the stream and the lookup are together what JobPromise says to
\* a client: a job goes through its states once and does not come back, is worked
\* on with its credits reserved, and they are kept or returned as it ends; events
\* are true and go forward, and what is asked afterwards agrees with them.
KeepsPromise == Promise!Spec

\* A client that was told the end of its job and then asks for it gets that
\* answer, and with a completed job the result and the score, unless the job
\* was deleted: the row is written before the hash, and read after it.
AnswerConfirms ==
  reading = "answered" /\ told \in Terminal /\ answer.status # "none" =>
    /\ answer.status = told
    /\ told = "completed" => answer.parts = {"result", "score"}

\* The stream of a job that was queued does not depend on its deadline: the
\* job gets to its end and the hash says so, unless the job is deleted.
StreamHearsTheEnd ==
  \A j \in Jobs :
    reading = "streaming" /\ about = j /\ hash[j] # "none"
      ~> reading # "streaming" \/ about # j \/ row[j] = "none"
=============================================================================
