------------------------------- MODULE Credits -------------------------------
(***************************************************************************)
(* app/credits.py: charge, settle and refund on the usage_records of one   *)
(* user, as PostgreSQL runs them: charge is a READ COMMITTED transaction   *)
(* of four statements under the lock of the user's row, settle and refund  *)
(* are single statements that take no lock, and deleting a job unlinks its *)
(* record (ON DELETE SET NULL) without giving the credits back.            *)
(*                                                                         *)
(* Request r stands for one call of charge; the row it inserts is named r  *)
(* as well.  The row counts only once the transaction has committed.       *)
(***************************************************************************)
EXTENDS Integers, FiniteSets

CONSTANTS
  Requests,   \* calls of charge for this user
  Jobs,       \* the jobs they are for
  NoJob,      \* job_id NULL: /v1/analyze charges without a job
  JobOf,      \* the job_id argument of each call
  Cost,       \* the credits argument of each call
  MaxCost,    \* a bound on Cost: inputs are limited to max_input_chars
  Granted     \* users.free_credits

ASSUME CreditsAssumption ==
  /\ IsFiniteSet(Requests)
  /\ NoJob \notin Jobs
  /\ JobOf \in [Requests -> Jobs \cup {NoJob}]
  /\ MaxCost \in Nat
  /\ Cost \in [Requests -> 1..MaxCost]
  /\ Granted \in Nat

VARIABLES
  pc,        \* where each call is in its transaction
  lock,      \* the call that holds the user's row lock, if any
  seen,      \* the sum a call has read
  status,    \* usage_records.status of the committed rows, "none" of the others
  credits,   \* usage_records.credits_used
  linked     \* rows whose job_id is not NULL

vars == <<pc, lock, seen, status, credits, linked>>

\* Sums are at most the charges of all requests together.
Units == Requests \X (1..MaxCost)

\* SUM(credits_used) of the committed rows: the number of (row, unit) pairs.
Used == Cardinality({u \in Units : u[2] <= credits[u[1]]})

InTransaction == {"locked", "summed", "inserted", "conflict"}
PCs == InTransaction \cup {"idle", "charged", "present", "refused", "aborted"}

TypeOK ==
  /\ pc \in [Requests -> PCs]
  /\ lock \in SUBSET Requests
  /\ seen \in [Requests -> Nat]
  /\ status \in [Requests -> {"none", "reserved", "completed", "refunded"}]
  /\ credits \in [Requests -> 0..MaxCost]
  /\ linked \in SUBSET Requests

Init ==
  /\ pc = [r \in Requests |-> "idle"]
  /\ lock = {}
  /\ seen = [r \in Requests |-> 0]
  /\ status = [r \in Requests |-> "none"]
  /\ credits = [r \in Requests |-> 0]
  /\ linked = {}

rows == <<status, credits, linked>>
RowsOf(j) == {r \in linked : JobOf[r] = j}
-----------------------------------------------------------------------------
Goto(r, from, to) ==
  /\ pc[r] = from
  /\ pc' = [pc EXCEPT ![r] = to]

\* Variant: the SELECT has lost its FOR UPDATE.
BeginWithoutLock(r) ==
  /\ Goto(r, "idle", "locked")
  /\ UNCHANGED <<lock, seen, rows>>

\* SELECT ... FROM users FOR UPDATE waits for the row.
Begin(r) ==
  /\ lock = {}
  /\ Goto(r, "idle", "locked")
  /\ lock' = {r}
  /\ UNCHANGED <<seen, rows>>

ReadSum(r) ==
  /\ Goto(r, "locked", "summed")
  /\ seen' = [seen EXCEPT ![r] = Used]
  /\ UNCHANGED <<lock, rows>>

\* Variant: what the call itself needs is left out of the comparison.
CoveredBeforehand(r) == seen[r] < Granted

Covered(r) == seen[r] + Cost[r] <= Granted

\* Variant: InsufficientCredits is raised without ending the transaction.
RefuseKeepsLock(r) ==
  /\ ~Covered(r)
  /\ Goto(r, "summed", "refused")
  /\ UNCHANGED <<lock, seen, rows>>

\* conn.rollback() and InsufficientCredits.
Refuse(r) ==
  /\ ~Covered(r)
  /\ Goto(r, "summed", "refused")
  /\ lock' = {}
  /\ UNCHANGED <<seen, rows>>

\* Variant: there is no unique index for ON CONFLICT to meet.
InsertAgain(r) ==
  /\ Covered(r)
  /\ Goto(r, "summed", "inserted")
  /\ UNCHANGED <<lock, seen, rows>>

\* INSERT ... ON CONFLICT DO NOTHING against the unique index on job_id, in
\* which NULLs do not conflict.
Insert(r) ==
  /\ Covered(r)
  /\ Goto(r, "summed", IF RowsOf(JobOf[r]) # {} THEN "conflict" ELSE "inserted")
  /\ UNCHANGED <<lock, seen, rows>>

\* The row becomes visible to the other transactions.
Commit(r) ==
  /\ Goto(r, "inserted", "charged")
  /\ \E s \in {"reserved", "completed"} : status' = [status EXCEPT ![r] = s]
  /\ credits' = [credits EXCEPT ![r] = Cost[r]]
  /\ linked' = IF JobOf[r] = NoJob THEN linked ELSE linked \cup {r}
  /\ lock' = {}
  /\ UNCHANGED seen

CommitNothing(r) ==
  /\ Goto(r, "conflict", "present")
  /\ lock' = {}
  /\ UNCHANGED <<seen, rows>>

\* The connection or the process is lost before COMMIT.
Abort(r) ==
  /\ pc[r] \in InTransaction
  /\ pc' = [pc EXCEPT ![r] = "aborted"]
  /\ lock' = lock \ {r}
  /\ UNCHANGED <<seen, rows>>
-----------------------------------------------------------------------------
\* settle: whatever the row's status was.
Settle(j) ==
  /\ status' = [r \in Requests |-> IF r \in RowsOf(j) THEN "completed" ELSE status[r]]
  /\ UNCHANGED <<pc, lock, seen, credits, linked>>

Refund(j) ==
  /\ status' = [r \in Requests |-> IF r \in RowsOf(j) THEN "refunded" ELSE status[r]]
  /\ credits' = [r \in Requests |-> IF r \in RowsOf(j) THEN 0 ELSE credits[r]]
  /\ UNCHANGED <<pc, lock, seen, linked>>

\* DELETE FROM jobs: job_id becomes NULL.  An uncommitted row that refers to
\* the job makes the DELETE wait.
DeleteJob(j) ==
  /\ \A r \in Requests : JobOf[r] = j => pc[r] # "inserted"
  /\ linked' = linked \ RowsOf(j)
  /\ UNCHANGED <<pc, lock, seen, status, credits>>

Charge(r) ==
  \/ ReadSum(r) \/ Refuse(r) \/ Insert(r)
  \/ Commit(r) \/ CommitNothing(r)

Next ==
  \/ \E r \in Requests : Begin(r) \/ Charge(r) \/ Abort(r)
  \/ \E j \in Jobs : Settle(j) \/ Refund(j) \/ DeleteJob(j)

Spec == Init /\ [][Next]_vars

\* PostgreSQL goes on with a transaction it has begun.
FairSpec == Spec /\ \A r \in Requests : WF_vars(Charge(r))
-----------------------------------------------------------------------------
\* The account is never overdrawn, however many charges run at once and
\* whatever is refunded, settled or deleted in between.
UsedWithinGrant == Used <= Granted

\* Between the lock and COMMIT a call is alone: what it read is an upper
\* bound of what is in use, so the check still holds when the row is written,
\* and the index it consulted still has no row of its job.
LockInv ==
  \A r \in Requests :
    /\ pc[r] \in InTransaction <=> lock = {r}
    /\ pc[r] \in {"summed", "inserted", "conflict"} => Used <= seen[r]
    /\ pc[r] \in {"inserted", "conflict"} => Covered(r)
    /\ status[r] = "none" => credits[r] = 0
    /\ status[r] # "none" \/ r \in linked => pc[r] = "charged"
    /\ pc[r] = "inserted" => RowsOf(JobOf[r]) = {}

\* A job is charged once: repeated calls of charge for it add nothing.
OneRowPerJob ==
  \A r, s \in linked : JobOf[r] = JobOf[s] => r = s

\* No charge keeps the others waiting: a call that has the user's row gives it
\* back, whether it charges, refuses, finds the job charged or is cut off.
LockReturns == \A r \in Requests : lock = {r} ~> lock # {r}

\* Seen from outside, check and charge are one step of the ledger.
Balance == INSTANCE Ledger WITH used <- Used
ImplementsLedger == Balance!Spec
=============================================================================
