---------------------------- MODULE JobExecution ----------------------------
(***************************************************************************)
(* Everything that executes jobs, around the tables of JobsService:        *)
(*   - request handlers of the web process (api/app.py), which create a    *)
(*     job and hand it to the executor, or run it inline (POST /api/sync); *)
(*   - the threads of the local executor (jobs/queue.py), which live in    *)
(*     the web process and take jobs from an in-memory queue;              *)
(*   - external workers (jobs/worker.py), which poll the jobs table;       *)
(*   - start and death of the web process, with the recovery its start     *)
(*     runs over jobs left running.                                        *)
(* A process is a set of program counters; a step ends with a commit.      *)
(***************************************************************************)
EXTENDS JobsService, Sequences

CONSTANTS
    Workers,     \* external worker processes; one started again is another one
    Threads,     \* threads of the local executor: max_workers=4 in the code
    Handlers,    \* concurrent request handlers of the web process
    Kinds,       \* which kinds of job requests are made, of JobKinds
    LocalMode,   \* settings.job_executor_mode = "local"
    OnceWorkers, \* the workers started with once=True
    DbMayFail,   \* a statement or a commit may raise
    MaxItems,    \* bound on the results one run records before it finishes
    MaxStarts    \* bound on how often the web process starts

\* "scan" stands for discovery_scan and sync_all, whose runners do not roll
\* the session back in their except clause; "mutation" for the five runners
\* that do; "inline" for the sync_all job of POST /api/sync.
JobKinds == {"scan", "mutation", "inline"}
Runners == Workers \cup Threads \cup Handlers
NoJob == 0

ASSUME ExecutionAssumption ==
    /\ Kinds \subseteq JobKinds
    /\ LocalMode \in BOOLEAN
    /\ DbMayFail \in BOOLEAN
    /\ OnceWorkers \subseteq Workers
    /\ MaxItems \in Nat
    /\ MaxStarts \in Nat
    /\ Workers \cap Threads = {}
    /\ Workers \cap Handlers = {}
    /\ Threads \cap Handlers = {}

VARIABLES
    kind,        \* jobs.job_type and how the job is executed, fixed at creation
    pc, job,     \* where each runner is and the job it holds
    left,        \* results its run will still record
    bad,         \* its run has recorded a failed result
    poisoned,    \* its session awaits a rollback that the runner never issues
    cands,       \* the ids the worker's claim has selected and not yet tried
    lastClaimed, \* run_worker_loop's last_claimed_job_id
    processed,   \* run_worker_loop's processed
    hb,          \* worker_heartbeats
    pool,        \* the work queue of the ThreadPoolExecutor
    web,         \* the web process
    orphans,     \* rows the start-up recovery has selected
    webStarts,   \* starts of the web process so far, up to MaxStarts
    runs         \* history: how often the job's body has been started

runVars == <<left, bad, poisoned, runs>>
workerVars == <<cands, lastClaimed, processed, hb>>
webVars == <<pool, web, orphans, webStarts>>
vars == <<status, rows, kind, pc, job, runVars, workerVars, webVars>>

Body == {"start", "work", "audit", "failRow", "failFinish"}
WorkerPC == {"new", "poll", "claim", "beat", "doneBeat", "idleBeat",
             "exited", "dead"} \cup Body
ThreadPC == {"idle"} \cup Body
HandlerPC == {"idle", "enqueue", "inlineStart", "inlineWork", "inlineAudit"}
Heartbeat == [status : {"none", "running", "idle"},
              claimed : Jobs \cup {NoJob}, completed : Jobs \cup {NoJob},
              processed : Nat]

ProcessTypeOK ==
    /\ kind \in [Jobs -> Kinds \cup {"none"}]
    /\ pc \in [Runners -> WorkerPC \cup ThreadPC \cup HandlerPC]
    /\ \A w \in Workers : pc[w] \in WorkerPC
    /\ \A t \in Threads : pc[t] \in ThreadPC
    /\ \A h \in Handlers : pc[h] \in HandlerPC
    /\ job \in [Runners -> Jobs \cup {NoJob}]

RunTypeOK ==
    /\ left \in [Runners -> 0..MaxItems]
    /\ bad \in [Runners -> BOOLEAN]
    /\ poisoned \in [Runners -> BOOLEAN]
    /\ runs \in [Jobs -> Nat]

WorkerTypeOK ==
    /\ cands \in [Workers -> SUBSET Jobs]
    /\ lastClaimed \in [Workers -> Jobs \cup {NoJob}]
    /\ processed \in [Workers -> Nat]
    /\ hb \in [Workers -> Heartbeat]

WebTypeOK ==
    /\ pool \in Seq(Jobs)
    /\ web \in {"down", "recovering", "up"}
    /\ orphans \subseteq Jobs
    /\ webStarts \in 0..MaxStarts

TypeOK ==
    TableTypeOK /\ ProcessTypeOK /\ RunTypeOK /\ WorkerTypeOK /\ WebTypeOK

Init ==
    /\ TableInit
    /\ kind = [j \in Jobs |-> "none"]
    /\ pc = [r \in Runners |-> IF r \in Workers THEN "new" ELSE "idle"]
    /\ job = [r \in Runners |-> NoJob]
    /\ left = [r \in Runners |-> 0]
    /\ bad = [r \in Runners |-> FALSE]
    /\ poisoned = [r \in Runners |-> FALSE]
    /\ cands = [w \in Workers |-> {}]
    /\ lastClaimed = [w \in Workers |-> NoJob]
    /\ processed = [w \in Workers |-> 0]
    /\ hb = [w \in Workers |-> [status |-> "none", claimed |-> NoJob,
                                completed |-> NoJob, processed |-> 0]]
    /\ pool = <<>>
    /\ web = "down"
    /\ orphans = {}
    /\ webStarts = 0
    /\ runs = [j \in Jobs |-> 0]

Goto(r, label) == pc' = [pc EXCEPT ![r] = label]
Hold(r, j) == job' = [job EXCEPT ![r] = j]

----------------------------------------------------------------------------
(* The body of a job, run by a worker or by an executor thread.            *)

\* The runner returns to its caller.
Return(r) ==
    IF r \in Workers THEN Goto(r, "doneBeat") /\ UNCHANGED job
                     ELSE Goto(r, "idle") /\ Hold(r, NoJob)

\* An exception leaves the runner: run_worker_loop does not catch it and the
\* worker process ends; in the executor it stays in a future nobody reads.
Escape(r) ==
    IF r \in Workers THEN Goto(r, "dead") /\ UNCHANGED job
                     ELSE Goto(r, "idle") /\ Hold(r, NoJob)

\* jobs.start, before the try of the runner.
StartJob(r) ==
    /\ pc[r] = "start"
    /\ Start(job[r])
    /\ \E n \in 0..MaxItems : left' = [left EXCEPT ![r] = n]
    /\ bad' = [bad EXCEPT ![r] = FALSE]
    /\ poisoned' = [poisoned EXCEPT ![r] = FALSE]
    /\ runs' = [runs EXCEPT ![job[r]] = @ + 1]
    /\ Goto(r, "work")
    /\ UNCHANGED <<kind, job, workerVars, webVars>>

Item_mutant(r) ==  \* a failed item is recorded but not counted
    /\ pc[r] = "work" /\ left[r] > 0
    /\ \E outcome \in ResultStatus :
          /\ outcome = "running" => kind[job[r]] # "mutation"
          /\ AddResult(job[r], outcome)
    /\ left' = [left EXCEPT ![r] = @ - 1]
    /\ UNCHANGED <<kind, pc, job, bad, poisoned, runs, workerVars, webVars>>

\* One item of the run done, or failed and rolled back, and its result row.
\* Scans also record their progress, as rows with status running.
Item(r) ==
    /\ pc[r] = "work" /\ left[r] > 0
    /\ \E outcome \in ResultStatus :
          /\ outcome = "running" => kind[job[r]] # "mutation"
          /\ AddResult(job[r], outcome)
          /\ bad' = [bad EXCEPT ![r] = @ \/ outcome = "failed"]
    /\ left' = [left EXCEPT ![r] = @ - 1]
    /\ UNCHANGED <<kind, pc, job, poisoned, runs, workerVars, webVars>>

\* jobs.finish: success exactly when no item failed.
FinishJob(r) ==
    /\ pc[r] = "work" /\ left[r] = 0
    /\ Finish(job[r], ~bad[r])
    /\ Goto(r, "audit")
    /\ UNCHANGED <<kind, job, runVars, workerVars, webVars>>

\* audit.log, after finish and inside the same try.
AuditJob(r) ==
    /\ pc[r] = "audit"
    /\ Return(r)
    /\ UNCHANGED <<tableVars, kind, runVars, workerVars, webVars>>

\* An exception in the try, outside the per-item try: a bad payload, a group
\* that is gone, or, at any commit up to the audit row's, the database.
Raise(r) ==
    /\ pc[r] \in {"work", "audit"}
    /\ pc[r] = "audit" => DbMayFail
    /\ \E p \in BOOLEAN :
          /\ p => DbMayFail /\ kind[job[r]] # "mutation"
          /\ poisoned' = [poisoned EXCEPT ![r] = p]
    /\ Goto(r, "failRow")
    /\ UNCHANGED <<tableVars, kind, job, left, bad, runs, workerVars, webVars>>

FailRow_mutant(r) ==  \* the except clause ends after the result row
    /\ pc[r] = "failRow" /\ ~poisoned[r]
    /\ AddResult(job[r], "failed")
    /\ Return(r)
    /\ UNCHANGED <<kind, runVars, workerVars, webVars>>

FailRowLost_mutant(r) ==  \* the except clause records no result row
    /\ pc[r] = "failRow" /\ ~poisoned[r]
    /\ Goto(r, "failFinish")
    /\ UNCHANGED <<tableVars, kind, job, runVars, workerVars, webVars>>

\* The except clause: a failed result row, then finish(success=False).
FailRow(r) ==
    /\ pc[r] = "failRow" /\ ~poisoned[r]
    /\ AddResult(job[r], "failed")
    /\ Goto(r, "failFinish")
    /\ UNCHANGED <<kind, job, runVars, workerVars, webVars>>

FailFinish(r) ==
    /\ pc[r] = "failFinish"
    /\ Finish(job[r], FALSE)
    /\ Return(r)
    /\ UNCHANGED <<kind, runVars, workerVars, webVars>>

\* The database fails where nothing catches it: in start, in the except
\* clause, or there because the failed flush was never rolled back.
Unhandled(r) ==
    /\ pc[r] \in {"start", "failRow", "failFinish"} /\ DbMayFail
    /\ Escape(r)
    /\ UNCHANGED <<tableVars, kind, runVars, workerVars, webVars>>

BodyStep(r) ==
    \/ StartJob(r) \/ Item(r) \/ FinishJob(r) \/ AuditJob(r)
    \/ Raise(r) \/ FailRow(r) \/ FailFinish(r) \/ Unhandled(r)

----------------------------------------------------------------------------
(* run_worker_loop.                                                        *)

\* touch_worker_heartbeat: an id that is None leaves the stored one.
Touch(w, s, claimed, completed, n) ==
    hb' = [hb EXCEPT ![w] =
            [status |-> s,
             claimed |-> IF claimed = NoJob THEN @.claimed ELSE claimed,
             completed |-> IF completed = NoJob THEN @.completed ELSE completed,
             processed |-> n]]

Boot(w) ==
    /\ pc[w] = "new"
    /\ Touch(w, "running", NoJob, NoJob, 0)
    /\ Goto(w, "poll")
    /\ UNCHANGED <<tableVars, kind, job, runVars, cands, lastClaimed, processed, webVars>>

Poll(w) ==
    /\ pc[w] = "poll"
    /\ cands' = [cands EXCEPT ![w] = OldestPending]
    /\ Hold(w, NoJob)
    /\ Goto(w, "claim")
    /\ UNCHANGED <<tableVars, kind, runVars, lastClaimed, processed, hb, webVars>>

ClaimWon(w) ==
    /\ pc[w] = "claim"
    /\ \E j \in cands[w] : IsOldest(j, cands[w]) /\ ClaimRow(j) /\ Hold(w, j)
    /\ cands' = [cands EXCEPT ![w] = {}]
    /\ Goto(w, "beat")
    /\ UNCHANGED <<kind, runVars, lastClaimed, processed, hb, webVars>>

ClaimLost(w) ==
    /\ pc[w] = "claim"
    /\ \E j \in cands[w] :
          /\ IsOldest(j, cands[w])
          /\ LoseRow(j)
          /\ cands' = [cands EXCEPT ![w] = @ \ {j}]
    /\ UNCHANGED <<kind, pc, job, runVars, lastClaimed, processed, hb, webVars>>

ClaimNone(w) ==
    /\ pc[w] = "claim" /\ cands[w] = {}
    /\ Goto(w, "beat")
    /\ UNCHANGED <<tableVars, kind, job, runVars, workerVars, webVars>>

Beat_mutant(w) ==  \* the job just claimed is passed as the completed one
    /\ pc[w] = "beat"
    /\ Touch(w, "running", lastClaimed[w], job[w], processed[w])
    /\ IF job[w] = NoJob
       THEN /\ Goto(w, IF w \in OnceWorkers THEN "idleBeat" ELSE "poll")
            /\ UNCHANGED lastClaimed
       ELSE /\ Goto(w, "start")
            /\ lastClaimed' = [lastClaimed EXCEPT ![w] = job[w]]
    /\ UNCHANGED <<tableVars, kind, job, runVars, cands, processed, webVars>>

\* The heartbeat after the claim, with last_claimed_job_id as it was before.
Beat(w) ==
    /\ pc[w] = "beat"
    /\ Touch(w, "running", lastClaimed[w], NoJob, processed[w])
    /\ IF job[w] = NoJob
       THEN /\ Goto(w, IF w \in OnceWorkers THEN "idleBeat" ELSE "poll")
            /\ UNCHANGED lastClaimed
       ELSE /\ Goto(w, "start")
            /\ lastClaimed' = [lastClaimed EXCEPT ![w] = job[w]]
    /\ UNCHANGED <<tableVars, kind, job, runVars, cands, processed, webVars>>

DoneBeat(w) ==
    /\ pc[w] = "doneBeat"
    /\ processed' = [processed EXCEPT ![w] = @ + 1]
    /\ Touch(w, "running", job[w], job[w], processed[w] + 1)
    /\ Goto(w, IF w \in OnceWorkers THEN "idleBeat" ELSE "poll")
    /\ UNCHANGED <<tableVars, kind, job, runVars, cands, lastClaimed, webVars>>

\* The last heartbeat of a worker started with once=True.
IdleBeat(w) ==
    /\ pc[w] = "idleBeat"
    /\ Touch(w, "idle", IF job[w] = NoJob THEN lastClaimed[w] ELSE job[w],
             job[w], processed[w])
    /\ Goto(w, "exited")
    /\ UNCHANGED <<tableVars, kind, job, runVars, cands, lastClaimed, processed, webVars>>

\* The process is killed, or a heartbeat or the claim raises.
WorkerCrash(w) ==
    /\ pc[w] \notin {"new", "exited", "dead"}
    /\ Goto(w, "dead")
    /\ UNCHANGED <<tableVars, kind, job, runVars, workerVars, webVars>>

WorkerStep(w) ==
    \/ Boot(w) \/ Poll(w) \/ ClaimWon(w) \/ ClaimLost(w) \/ ClaimNone(w)
    \/ Beat(w) \/ DoneBeat(w) \/ IdleBeat(w) \/ BodyStep(w)

----------------------------------------------------------------------------
(* The web process: executor threads, request handlers, start and death.   *)

Take(t) ==
    /\ pc[t] = "idle" /\ pool # <<>>
    /\ Hold(t, Head(pool))
    /\ pool' = Tail(pool)
    /\ Goto(t, "start")
    /\ UNCHANGED <<tableVars, kind, runVars, workerVars, web, orphans, webStarts>>

ThreadStep(t) == Take(t) \/ BodyStep(t)

\* A handler commits the new job.
Submit(h) ==
    /\ web = "up" /\ pc[h] = "idle"
    /\ \E j \in Jobs, k \in Kinds :
          /\ Create(j)
          /\ kind' = [kind EXCEPT ![j] = k]
          /\ Hold(h, j)
          /\ Goto(h, IF k = "inline" THEN "inlineStart" ELSE "enqueue")
    /\ UNCHANGED <<runVars, workerVars, webVars>>

Enqueue_mutant(h) ==  \* the job is submitted to the executor twice
    /\ pc[h] = "enqueue"
    /\ pool' = IF LocalMode THEN pool \o <<job[h], job[h]>> ELSE pool
    /\ Hold(h, NoJob)
    /\ Goto(h, "idle")
    /\ UNCHANGED <<tableVars, kind, runVars, workerVars, web, orphans, webStarts>>

\* enqueue_*_job: only the local mode hands the job to the executor.
Enqueue(h) ==
    /\ pc[h] = "enqueue"
    /\ pool' = IF LocalMode THEN Append(pool, job[h]) ELSE pool
    /\ Hold(h, NoJob)
    /\ Goto(h, "idle")
    /\ UNCHANGED <<tableVars, kind, runVars, workerVars, web, orphans, webStarts>>

\* POST /api/sync starts the job it has just committed as pending ...
InlineStart(h) ==
    /\ pc[h] = "inlineStart"
    /\ Start(job[h])
    /\ runs' = [runs EXCEPT ![job[h]] = @ + 1]
    /\ Goto(h, "inlineWork")
    /\ UNCHANGED <<kind, job, left, bad, poisoned, workerVars, webVars>>

\* ... and finishes it with the outcome of sync_all, recording no result row.
InlineFinish(h) ==
    /\ pc[h] = "inlineWork"
    /\ \E success \in BOOLEAN : Finish(job[h], success)
    /\ Goto(h, "inlineAudit")
    /\ UNCHANGED <<kind, job, runVars, workerVars, webVars>>

InlineAudit(h) ==
    /\ pc[h] = "inlineAudit"
    /\ Goto(h, "idle")
    /\ Hold(h, NoJob)
    /\ UNCHANGED <<tableVars, kind, runVars, workerVars, webVars>>

\* Nothing in the handler catches an exception: the job stays as it is.
HandlerError(h) ==
    /\ pc[h] \in {"inlineStart", "inlineWork", "inlineAudit"} /\ DbMayFail
    /\ Goto(h, "idle")
    /\ Hold(h, NoJob)
    /\ UNCHANGED <<tableVars, kind, runVars, workerVars, webVars>>

HandlerStep(h) ==
    \/ Enqueue(h) \/ InlineStart(h) \/ InlineFinish(h) \/ InlineAudit(h)
    \/ HandlerError(h)

\* startup: the recovery reads the running rows ...
WebStart ==
    /\ web = "down" /\ webStarts < MaxStarts
    /\ web' = "recovering"
    /\ webStarts' = webStarts + 1
    /\ orphans' = RunningRows
    /\ UNCHANGED <<tableVars, kind, pc, job, runVars, workerVars, pool>>

\* ... and commits them as failed; only then are requests served.
WebRecover ==
    /\ web = "recovering"
    /\ RecoverRows(orphans)
    /\ web' = "up"
    /\ orphans' = {}
    /\ UNCHANGED <<kind, pc, job, runVars, workerVars, pool, webStarts>>

\* The web process dies, and with it its threads, handlers and queue.
WebCrash ==
    /\ web # "down" /\ webStarts < MaxStarts
    /\ web' = "down"
    /\ orphans' = {}
    /\ pool' = <<>>
    /\ pc' = [r \in Runners |-> IF r \in Workers THEN pc[r] ELSE "idle"]
    /\ job' = [r \in Runners |-> IF r \in Workers THEN job[r] ELSE NoJob]
    /\ UNCHANGED <<tableVars, kind, runVars, workerVars, webStarts>>

Next ==
    \/ \E w \in Workers : WorkerStep(w) \/ WorkerCrash(w)
    \/ \E t \in Threads : ThreadStep(t)
    \/ \E h \in Handlers : Submit(h) \/ HandlerStep(h)
    \/ WebStart \/ WebRecover \/ WebCrash

Spec == Init /\ [][Next]_vars

\* A live process goes on: the worker's loop and the executor's threads run
\* by themselves, a handler runs to its end, a web process that is down is
\* started again (MaxStarts allowing) and completes its start.  Requests and
\* deaths are nobody's duty, and so is a failure of the database: fairness is
\* asked of the other steps of a body.
Progress(r) ==
    \/ StartJob(r) \/ Item(r) \/ FinishJob(r) \/ AuditJob(r)
    \/ FailRow(r) \/ FailFinish(r) \/ (poisoned[r] /\ Unhandled(r))

WorkerProgress(w) ==
    \/ Boot(w) \/ Poll(w) \/ ClaimWon(w) \/ ClaimLost(w) \/ ClaimNone(w)
    \/ Beat(w) \/ DoneBeat(w) \/ IdleBeat(w) \/ Progress(w)

HandlerProgress(h) ==
    Enqueue(h) \/ InlineStart(h) \/ InlineFinish(h) \/ InlineAudit(h)

Fairness ==
    /\ \A w \in Workers : WF_vars(WorkerProgress(w))
    /\ \A t \in Threads : WF_vars(Take(t) \/ Progress(t))
    /\ \A h \in Handlers : WF_vars(HandlerProgress(h))
    /\ WF_vars(WebStart) /\ WF_vars(WebRecover)

FairSpec == Spec /\ Fairness
=============================================================================
