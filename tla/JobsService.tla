---------------------------- MODULE JobsService ----------------------------
(***************************************************************************)
(* The jobs and job_results tables and the operations of                   *)
(* meshonator/jobs/service.py on them.  Every operation commits before it  *)
(* returns, so each is one step of whoever calls it; the two that read     *)
(* rows and write them later (the claim and the start-up recovery) are     *)
(* split into the read and the write.                                      *)
(*                                                                         *)
(* A job is its rank in created_at order.  created_at is the time the      *)
(* creating transaction began (server_default now()), so rows may become   *)
(* visible in another order than their rank.                               *)
(***************************************************************************)
EXTENDS Naturals, FiniteSets

CONSTANTS
    Jobs,       \* the rows the table may come to hold
    ClaimLimit  \* pending rows one claim looks at: limit(20) in the code

ASSUME JobsAssumption == Jobs \subseteq Nat \ {0}
ASSUME ClaimLimitAssumption == ClaimLimit \in Nat \ {0}

VARIABLES
    status,     \* jobs.status, "absent" before the row is inserted
    rows        \* the statuses found among the job's result rows

tableVars == <<status, rows>>

JobStatus == {"absent", "pending", "running", "success", "failed"}
ResultStatus == {"running", "success", "failed"}
Terminal == {"success", "failed"}

TableTypeOK ==
    /\ status \in [Jobs -> JobStatus]
    /\ rows \in [Jobs -> SUBSET ResultStatus]

TableInit ==
    /\ status = [j \in Jobs |-> "absent"]
    /\ rows = [j \in Jobs |-> {}]

Pending == {j \in Jobs : status[j] = "pending"}

----------------------------------------------------------------------------
\* Definitions named ..._mutant are never used: each is a plausible mistake in
\* the definition it precedes, for showing that a property would notice it.

Create_mutant(j) ==  \* the wrong word for a new job
    /\ status[j] = "absent"
    /\ status' = [status EXCEPT ![j] = "queued"]
    /\ UNCHANGED rows

\* create: insert the row as pending.
Create(j) ==
    /\ status[j] = "absent"
    /\ status' = [status EXCEPT ![j] = "pending"]
    /\ UNCHANGED rows

\* start: the status is not looked at, whatever it was it becomes running.
\* (The ORM omits status from the UPDATE when the row was read as running:
\* then the step is the read, and the status stays what it was read as.)
Start(j) ==
    /\ status[j] # "absent"
    /\ status' = [status EXCEPT ![j] = "running"]
    /\ UNCHANGED rows

\* finish: likewise unconditional.
Finish(j, success) ==
    /\ status[j] # "absent"
    /\ status' = [status EXCEPT ![j] = IF success THEN "success" ELSE "failed"]
    /\ UNCHANGED rows

\* add_result: insert one result row of the job.
AddResult(j, outcome) ==
    /\ rows' = [rows EXCEPT ![j] = @ \cup {outcome}]
    /\ UNCHANGED status

OldestPending_mutant ==  \* the WHERE clause lets running rows through
    LET Unfinished == {j \in Jobs : status[j] \in {"pending", "running"}}
    IN {j \in Unfinished : Cardinality({i \in Unfinished : i < j}) < ClaimLimit}

\* claim_next_pending_id, the SELECT: the ClaimLimit oldest pending rows.
OldestPending ==
    {j \in Pending : Cardinality({i \in Pending : i < j}) < ClaimLimit}

\* The candidates are tried oldest first.
IsOldest(j, S) == j \in S /\ \A i \in S : j <= i

ClaimRow_mutant(j) ==  \* UPDATE without AND status = 'pending'
    /\ status[j] # "absent"
    /\ status' = [status EXCEPT ![j] = "running"]
    /\ UNCHANGED rows

\* claim_next_pending_id, UPDATE ... WHERE status = 'pending' with rowcount 1.
ClaimRow(j) ==
    /\ status[j] = "pending"
    /\ status' = [status EXCEPT ![j] = "running"]
    /\ UNCHANGED rows

\* ... and with rowcount 0: somebody else took the row since the SELECT.
LoseRow(j) ==
    /\ status[j] # "pending"
    /\ UNCHANGED tableVars

RunningRows_mutant == {j \in Jobs : status[j] = "pending"}  \* the other status

\* recover_stale_running_jobs(None, include_pending=False), the SELECT.
RunningRows == {j \in Jobs : status[j] = "running"}

RecoverRows_mutant(S) ==  \* the jobs are queued again instead of failed
    /\ status' = [j \in Jobs |-> IF j \in S THEN "pending" ELSE status[j]]
    /\ rows' = [j \in Jobs |-> IF j \in S THEN rows[j] \cup {"failed"} ELSE rows[j]]

\* ... and its commit: the rows selected before become failed, whatever they
\* are by now, each with a failed result row.
RecoverRows(S) ==
    /\ status' = [j \in Jobs |-> IF j \in S THEN "failed" ELSE status[j]]
    /\ rows' = [j \in Jobs |-> IF j \in S THEN rows[j] \cup {"failed"} ELSE rows[j]]
=============================================================================
