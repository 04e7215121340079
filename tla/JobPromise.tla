----------------------------- MODULE JobPromise -----------------------------
(***************************************************************************)
(* What the API promises the client of a job, in terms of what the client  *)
(* can tell: the job goes through its states once, its credits are paid    *)
(* for before it is worked on, and kept or returned as it ends, and what   *)
(* the client hears of it is true, only goes forward, and is the answer to *)
(* the questions that come later.  Neither Redis nor the worker is here.   *)
(***************************************************************************)
EXTENDS Naturals

CONSTANTS Jobs, NoJob

VARIABLES
  state,      \* of each job: "new" until its request decides, "gone" for good
  credits,    \* the status of its usage record
  about,      \* the job the client follows
  told,       \* the last event of its stream
  answer      \* what it was answered: the status, and what came with it

client == <<about, told, answer>>

Ends == {"completed", "failed"}
Nothing == [status |-> "none", parts |-> {}]

\* How far a job is that is said to be in a state.
Rank(s) ==
  CASE s = "none" -> 0 [] s = "queued" -> 1 [] s = "processing" -> 2 [] s \in Ends -> 3

Init ==
  /\ state = [j \in Jobs |-> "new"]
  /\ credits = [j \in Jobs |-> "none"]
  /\ about = NoJob
  /\ told = "none"
  /\ answer = Nothing

Move(j, from, to) ==
  /\ state[j] = from
  /\ state' = [state EXCEPT ![j] = to]
  /\ UNCHANGED <<credits, client>>

Book(j, from, to) ==
  /\ credits[j] = from
  /\ credits' = [credits EXCEPT ![j] = to]
  /\ UNCHANGED <<state, client>>

\* A job that is answered from the cache is complete at once.
Create(j) == Move(j, "new", "queued") \/ Move(j, "new", "completed")

Reserve(j) == state[j] = "queued" /\ Book(j, "none", "reserved")
PayCopy(j) == state[j] = "completed" /\ Book(j, "none", "completed")

\* Nothing is done for a job whose credits are not reserved.
Start(j)    == credits[j] = "reserved" /\ Move(j, "queued", "processing")
Complete(j) == credits[j] = "reserved" /\ Move(j, "processing", "completed")
Fail(j) ==
  /\ credits[j] = "reserved"
  /\ Move(j, "queued", "failed") \/ Move(j, "processing", "failed")

Keep(j)   == state[j] = "completed" /\ Book(j, "reserved", "completed")
Return(j) == state[j] = "failed" /\ Book(j, "reserved", "refunded")

\* Requests that come to nothing, and jobs that are deleted.
Drop ==
  /\ \E gone \in SUBSET Jobs :
       state' = [j \in Jobs |-> IF j \in gone THEN "gone" ELSE state[j]]
  /\ UNCHANGED <<credits, client>>

Work(j) ==
  \/ Create(j) \/ Reserve(j) \/ PayCopy(j)
  \/ Start(j) \/ Complete(j) \/ Fail(j) \/ Keep(j) \/ Return(j)
-----------------------------------------------------------------------------
Follow ==
  /\ about = NoJob
  /\ about' \in Jobs
  /\ UNCHANGED <<told, answer, state, credits>>

\* Whether an event may be sent about a job in a state: work on it is announced
\* once it has begun, its end once it is there and as it is.
Truthful(event, s) ==
  \/ event = "queued" /\ s # "new"
  \/ event = "processing" /\ s \notin {"new", "queued"}
  \/ event \in Ends /\ s \in {event, "gone"}

Tell ==
  /\ about \in Jobs
  /\ answer = Nothing
  /\ Rank(told') > Rank(told)
  /\ Truthful(told', state[about])
  /\ UNCHANGED <<about, answer, state, credits>>

\* The answer is the state of the job: a text comes with a completed one only,
\* and with all there is to whoever was told that it is complete.
Ask ==
  /\ about \in Jobs
  /\ answer = Nothing
  /\ answer'.status = IF state[about] \in {"new", "gone"} THEN "none" ELSE state[about]
  /\ answer'.parts # {} => state[about] = "completed"
  /\ told = "completed" /\ state[about] # "gone" => answer'.parts = {"result", "score"}
  /\ UNCHANGED <<about, told, state, credits>>

Leave ==
  /\ about' = NoJob
  /\ told' = "none"
  /\ answer' = Nothing
  /\ UNCHANGED <<state, credits>>

Next == (\E j \in Jobs : Work(j)) \/ Drop \/ Follow \/ Tell \/ Ask \/ Leave

vars == <<state, credits, client>>

Spec == Init /\ [][Next]_vars
=============================================================================
