------------------------- MODULE JobExecutionProps -------------------------
(* What JobExecution is expected to satisfy.                               *)
EXTENDS JobExecution

\* The deployments with one way to execute a job: no external worker, or the
\* external mode without POST /api/sync.
SingleExecutor == Workers = {} \/ (~LocalMode /\ "inline" \notin Kinds)

\* r holds j from taking it up to leaving its body.
OwnPC == {"beat", "start", "work", "audit", "failRow", "failFinish",
          "inlineStart", "inlineWork", "inlineAudit"}
Owns(r, j) == job[r] = j /\ pc[r] \in OwnPC

Alive(w) == pc[w] \notin {"new", "exited", "dead"}

\* No two of all workers, executor threads and request handlers ever hold the
\* same job: the claim, the executor's queue and the web restarts keep their
\* runs apart (service.py claim_next_pending_id, queue.py enqueue_*).
ExclusiveRun ==
    \A r1, r2 \in Runners : \A j \in Jobs :
        Owns(r1, j) /\ Owns(r2, j) => r1 = r2

\* The body of a job, which writes to radios, is started at most once, over
\* all crashes, restarts and recoveries: nothing is ever put back to pending.
AtMostOnce == \A j \in Jobs : runs[j] <= 1

\* The status and the evidence the Jobs page shows beside it agree: a failed
\* job has a failed result row, unless it was executed inline, which records
\* none, and a successful one has none, unless the database failed between
\* the row and the status that withdraw a success.
EvidenceAgrees ==
    \A j \in Jobs :
        /\ status[j] = "success" /\ "failed" \in rows[j] => DbMayFail
        /\ status[j] = "failed" /\ kind[j] # "inline" => "failed" \in rows[j]

\* With the local executor, a job shown as running while the web process
\* serves is being run by a thread or a handler of it; the exception is a job
\* whose runner met a database failure nothing caught.
RunningIsRun ==
    web = "up" /\ ~DbMayFail =>
        \A j \in Jobs : status[j] = "running" => \E r \in Runners : Owns(r, j)

\* One element for each job that each worker's heartbeat says it processed.
Counted == UNION {{w} \X (1..hb[w].processed) : w \in Workers}

\* A heartbeat never names as completed a job that has not ended, and the
\* workers' counts of processed jobs never exceed the jobs that have ended.
HeartbeatTruthful ==
    /\ \A w \in Workers :
          hb[w].completed # NoJob => status[hb[w].completed] \in Terminal
    /\ Cardinality(Counted) <= Cardinality({j \in Jobs : status[j] \in Terminal})

\* The start-up recovery fails only orphans, as the reason it records says
\* (startup_orphan_recovery): jobs that nobody is running.
RecoversOnlyOrphans ==
    [][web = "recovering" /\ web' = "up" =>
         \A j \in orphans : ~ \E r \in Runners : Owns(r, j)]_vars

\* The step of the abstract lifecycle this one implements.
Lifecycle == INSTANCE JobLifecycle WITH
    state <- status,
    begun <- [j \in Jobs |-> runs[j] > 0],
    failedRow <- [j \in Jobs |-> "failed" \in rows[j]]

\* Whoever executes the jobs, the table goes through the lifecycle a reader
\* of the Jobs page relies on.
ImplementsLifecycle == Lifecycle!LSpec

\* External mode: a pending job does not stay pending while a worker polls,
\* however many older ones there are and whoever else claims.
PendingIsClaimed ==
    \A j \in Jobs :
        status[j] = "pending" ~>
            (status[j] # "pending" \/ ~ \E w \in Workers : Alive(w) /\ w \notin OnceWorkers)

\* External mode: a job shown as running reaches an end, unless the worker
\* that claimed it dies: nothing else leaves a job running for ever.
RunningEndsOrWorkerDied ==
    \A j \in Jobs :
        status[j] = "running" ~>
            (status[j] \in Terminal \/ \E w \in Workers : pc[w] = "dead" /\ job[w] = j)

\* Local mode: a job shown as running reaches an end, by its thread or, when
\* the web process dies under it, by the recovery at its next start.
RunningEnds ==
    \A j \in Jobs : status[j] = "running" ~> status[j] \in Terminal
=============================================================================
