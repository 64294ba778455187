---------------------------- MODULE JobLifecycle ----------------------------
(***************************************************************************)
(* What the job system promises of one table of jobs, whoever executes     *)
(* them: a job is begun once, its body is started at most once, it ends    *)
(* once, and it ends well only if no failure was recorded for it.  The     *)
(* audit row is written after the end inside the same try, so a success    *)
(* may still be withdrawn, with a failed result row to show for it.        *)
(***************************************************************************)
EXTENDS Naturals

CONSTANT Jobs

VARIABLES
    state,      \* of each job: as jobs.status
    begun,      \* the body of the job has been started
    failedRow   \* a failed result row exists

lifeVars == <<state, begun, failedRow>>

LInit ==
    /\ state = [j \in Jobs |-> "absent"]
    /\ begun = [j \in Jobs |-> FALSE]
    /\ failedRow = [j \in Jobs |-> FALSE]

Submitted(j) ==
    /\ state[j] = "absent"
    /\ state' = [state EXCEPT ![j] = "pending"]
    /\ UNCHANGED <<begun, failedRow>>

\* Taken by a worker that has not yet come to start the body.
Taken(j) ==
    /\ state[j] = "pending"
    /\ state' = [state EXCEPT ![j] = "running"]
    /\ UNCHANGED <<begun, failedRow>>

Begun(j) ==
    /\ state[j] \in {"pending", "running"} /\ ~begun[j]
    /\ state' = [state EXCEPT ![j] = "running"]
    /\ begun' = [begun EXCEPT ![j] = TRUE]
    /\ UNCHANGED failedRow

\* A result may be recorded while the job runs, and the withdrawal's after.
Recorded(j) ==
    /\ begun[j] /\ state[j] \in {"running", "success", "failed"}
    /\ failedRow' = [failedRow EXCEPT ![j] = TRUE]
    /\ UNCHANGED <<state, begun>>

Succeeded(j) ==
    /\ begun[j] /\ state[j] = "running" /\ ~failedRow[j]
    /\ state' = [state EXCEPT ![j] = "success"]
    /\ UNCHANGED <<begun, failedRow>>

Failed(j) ==
    /\ begun[j] /\ state[j] = "running"
    /\ state' = [state EXCEPT ![j] = "failed"]
    /\ UNCHANGED <<begun, failedRow>>

Withdrawn(j) ==
    /\ state[j] = "success" /\ failedRow[j]
    /\ state' = [state EXCEPT ![j] = "failed"]
    /\ UNCHANGED <<begun, failedRow>>

\* The start of the web process fails every job left running, at once.
Orphaned ==
    /\ state' = [j \in Jobs |-> IF state[j] = "running" THEN "failed" ELSE state[j]]
    /\ failedRow' = [j \in Jobs |-> failedRow[j] \/ state[j] = "running"]
    /\ UNCHANGED begun

LNext ==
    \/ Orphaned
    \/ \E j \in Jobs :
          \/ Submitted(j) \/ Taken(j) \/ Begun(j) \/ Recorded(j)
          \/ Succeeded(j) \/ Failed(j) \/ Withdrawn(j)

LSpec == LInit /\ [][LNext]_lifeVars
=============================================================================
