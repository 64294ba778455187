------------------------ MODULE JobExecution_proofs ------------------------
(* Proofs of the properties of JobExecution for any number of workers,     *)
(* threads, handlers, jobs and restarts.                                   *)
EXTENDS JobExecutionProps, SequenceTheorems, TLAPS

\* The parameters are as JobExecution assumes them.
USE JobsAssumption, ExecutionAssumption

(***************************************************************************)
(* Typing.  TypeOK alone is not inductive: a step uses job[r] as a job     *)
(* wherever the runner's program counter says that it holds one.           *)
(***************************************************************************)

HoldPC == Body \cup {"enqueue", "inlineStart", "inlineWork", "inlineAudit", "doneBeat"}

HasJob == \A r \in Runners : pc[r] \in HoldPC => job[r] # NoJob

TypeInv == TypeOK /\ HasJob

\* Each operation of the jobs service keeps the tables well typed.
LEMMA TableType ==
    ASSUME TableTypeOK, NEW j \in Jobs,
           \/ Create(j) \/ Start(j) \/ Finish(j, TRUE) \/ Finish(j, FALSE)
           \/ (\E o \in ResultStatus : AddResult(j, o)) \/ ClaimRow(j)
           \/ UNCHANGED tableVars
    PROVE  TableTypeOK'
<1> USE DEF TableTypeOK, JobStatus, ResultStatus
<1>1. CASE Create(j) \/ Start(j) \/ ClaimRow(j)
  BY <1>1 DEF Create, Start, ClaimRow
<1>2. CASE Finish(j, TRUE) \/ Finish(j, FALSE)
  BY <1>2 DEF Finish
<1>3. CASE \E o \in ResultStatus : AddResult(j, o)
  BY <1>3 DEF AddResult
<1>4. CASE UNCHANGED tableVars
  BY <1>4 DEF tableVars
<1> QED
  BY <1>1, <1>2, <1>3, <1>4

LEMMA TypeInit == Init => TypeInv
<1> SUFFICES ASSUME Init PROVE TypeInv
  OBVIOUS
<1> USE DEF Init, TableInit, NoJob
<1>1. TableTypeOK
  BY DEF TableTypeOK, JobStatus, ResultStatus
<1>2. ProcessTypeOK /\ HasJob
  BY DEF ProcessTypeOK, HasJob, HoldPC, Body, Runners, WorkerPC, ThreadPC, HandlerPC
<1>3. RunTypeOK
  BY DEF RunTypeOK
<1>4. WorkerTypeOK
  BY DEF WorkerTypeOK, Heartbeat
<1>5. WebTypeOK
  BY EmptySeq DEF WebTypeOK
<1> QED
  BY <1>1, <1>2, <1>3, <1>4, <1>5 DEF TypeInv, TypeOK

\* A runner whose program counter says so holds a job of the table.
LEMMA HeldIsJob ==
    ASSUME ProcessTypeOK, HasJob, NEW r \in Runners, pc[r] \in HoldPC
    PROVE  job[r] \in Jobs
BY DEF ProcessTypeOK, HasJob

\* Starting a body counts the run.
LEMMA CountRun ==
    ASSUME runs \in [Jobs -> Nat], NEW j \in Jobs,
           runs' = [runs EXCEPT ![j] = @ + 1]
    PROVE  runs' \in [Jobs -> Nat]
<1>1. runs[j] + 1 \in Nat
  <2>1. runs[j] \in Nat
    OBVIOUS
  <2> QED
    BY <2>1
<1> QED
  BY <1>1

LEMMA StartRun ==
    ASSUME RunTypeOK, NEW r \in Runners, job[r] \in Jobs,
           StartJob(r) \/ InlineStart(r)
    PROVE  RunTypeOK'
<1>1. runs' \in [Jobs -> Nat]
  BY CountRun DEF StartJob, InlineStart, RunTypeOK
<1>2. CASE StartJob(r)
  <2>1. PICK n \in 0..MaxItems : left' = [left EXCEPT ![r] = n]
    BY <1>2 DEF StartJob
  <2>2. left' \in [Runners -> 0..MaxItems]
    BY <2>1 DEF RunTypeOK
  <2>3. bad' \in [Runners -> BOOLEAN] /\ poisoned' \in [Runners -> BOOLEAN]
    BY <1>2 DEF StartJob, RunTypeOK
  <2> QED
    BY <1>1, <2>2, <2>3 DEF RunTypeOK
<1>3. CASE InlineStart(r)
  BY <1>1, <1>3 DEF InlineStart, RunTypeOK
<1> QED
  BY <1>2, <1>3

LEMMA TypeBody ==
    ASSUME TypeInv, NEW r \in Workers \cup Threads, BodyStep(r)
    PROVE  TypeInv'
<1> USE DEF TypeInv, TypeOK
<1>1. CASE StartJob(r)
  <2>1. TableTypeOK'
    BY <1>1, HeldIsJob, TableType DEF StartJob, Runners, HoldPC, Body
  <2>2. ProcessTypeOK' /\ HasJob'
    BY <1>1, HeldIsJob DEF StartJob, Goto, Hold, ProcessTypeOK, HasJob, HoldPC, Body,
       Runners, WorkerPC, ThreadPC, HandlerPC
  <2>3. RunTypeOK'
    BY <1>1, HeldIsJob, StartRun DEF StartJob, Runners, HoldPC, Body
  <2>4. WorkerTypeOK' /\ WebTypeOK'
    BY <1>1 DEF StartJob, WorkerTypeOK, WebTypeOK, workerVars, webVars
  <2> QED
    BY <2>1, <2>2, <2>3, <2>4
<1>2. CASE Item(r)
  <2>1. TableTypeOK'
    BY <1>2, HeldIsJob, TableType DEF Item, Runners, HoldPC, Body
  <2>2. ProcessTypeOK' /\ HasJob'
    BY <1>2, HeldIsJob DEF Item, Goto, Hold, ProcessTypeOK, HasJob, HoldPC, Body,
       Runners, WorkerPC, ThreadPC, HandlerPC
  <2>3. RunTypeOK'
    BY <1>2 DEF Item, RunTypeOK, Runners
  <2>4. WorkerTypeOK' /\ WebTypeOK'
    BY <1>2 DEF Item, WorkerTypeOK, WebTypeOK, workerVars, webVars
  <2> QED
    BY <2>1, <2>2, <2>3, <2>4
<1>3. CASE FinishJob(r)
  <2>1. TableTypeOK'
    BY <1>3, HeldIsJob, TableType DEF FinishJob, Runners, HoldPC, Body, RunTypeOK
  <2>2. ProcessTypeOK' /\ HasJob'
    BY <1>3, HeldIsJob DEF FinishJob, Goto, Hold, ProcessTypeOK, HasJob, HoldPC, Body,
       Runners, WorkerPC, ThreadPC, HandlerPC
  <2>3. RunTypeOK' /\ WorkerTypeOK' /\ WebTypeOK'
    BY <1>3 DEF FinishJob, RunTypeOK, WorkerTypeOK, WebTypeOK, runVars, workerVars, webVars
  <2> QED
    BY <2>1, <2>2, <2>3
<1>4. CASE AuditJob(r)
  <2>1. ProcessTypeOK' /\ HasJob'
    BY <1>4, HeldIsJob DEF AuditJob, Return, Goto, Hold, ProcessTypeOK, HasJob, HoldPC, Body,
       Runners, WorkerPC, ThreadPC, HandlerPC
  <2>2. TableTypeOK' /\ RunTypeOK' /\ WorkerTypeOK' /\ WebTypeOK'
    BY <1>4 DEF AuditJob, TableTypeOK, RunTypeOK, WorkerTypeOK, WebTypeOK, tableVars, runVars, workerVars, webVars
  <2> QED
    BY <2>1, <2>2
<1>5. CASE Raise(r)
  <2>1. ProcessTypeOK' /\ HasJob'
    BY <1>5, HeldIsJob DEF Raise, Goto, Hold, ProcessTypeOK, HasJob, HoldPC, Body,
       Runners, WorkerPC, ThreadPC, HandlerPC
  <2>2. RunTypeOK'
    BY <1>5 DEF Raise, RunTypeOK, Runners
  <2>3. TableTypeOK' /\ WorkerTypeOK' /\ WebTypeOK'
    BY <1>5 DEF Raise, TableTypeOK, WorkerTypeOK, WebTypeOK, tableVars, workerVars, webVars
  <2> QED
    BY <2>1, <2>2, <2>3
<1>6. CASE FailRow(r)
  <2>1. TableTypeOK'
    BY <1>6, HeldIsJob, TableType DEF FailRow, Runners, HoldPC, Body, ResultStatus
  <2>2. ProcessTypeOK' /\ HasJob'
    BY <1>6, HeldIsJob DEF FailRow, Goto, Hold, ProcessTypeOK, HasJob, HoldPC, Body,
       Runners, WorkerPC, ThreadPC, HandlerPC
  <2>3. RunTypeOK' /\ WorkerTypeOK' /\ WebTypeOK'
    BY <1>6 DEF FailRow, RunTypeOK, WorkerTypeOK, WebTypeOK, runVars, workerVars, webVars
  <2> QED
    BY <2>1, <2>2, <2>3
<1>7. CASE FailFinish(r)
  <2>1. TableTypeOK'
    BY <1>7, HeldIsJob, TableType DEF FailFinish, Runners, HoldPC, Body
  <2>2. ProcessTypeOK' /\ HasJob'
    BY <1>7, HeldIsJob DEF FailFinish, Return, Goto, Hold, ProcessTypeOK, HasJob, HoldPC, Body,
       Runners, WorkerPC, ThreadPC, HandlerPC
  <2>3. RunTypeOK' /\ WorkerTypeOK' /\ WebTypeOK'
    BY <1>7 DEF FailFinish, RunTypeOK, WorkerTypeOK, WebTypeOK, runVars, workerVars, webVars
  <2> QED
    BY <2>1, <2>2, <2>3
<1>8. CASE Unhandled(r)
  <2>1. ProcessTypeOK' /\ HasJob'
    BY <1>8, HeldIsJob DEF Unhandled, Escape, Goto, Hold, ProcessTypeOK, HasJob, HoldPC, Body,
       Runners, WorkerPC, ThreadPC, HandlerPC
  <2>2. TableTypeOK' /\ RunTypeOK' /\ WorkerTypeOK' /\ WebTypeOK'
    BY <1>8 DEF Unhandled, TableTypeOK, RunTypeOK, WorkerTypeOK, WebTypeOK, tableVars, runVars, workerVars, webVars
  <2> QED
    BY <2>1, <2>2
<1> QED
  BY <1>1, <1>2, <1>3, <1>4, <1>5, <1>6, <1>7, <1>8 DEF BodyStep

LEMMA TypeWorker ==
    ASSUME TypeInv, NEW r \in Workers, 
           Boot(r) \/ Poll(r) \/ ClaimWon(r) \/ ClaimLost(r)
           \/ ClaimNone(r) \/ Beat(r) \/ DoneBeat(r) \/ IdleBeat(r)
    PROVE  TypeInv'
<1> USE DEF TypeInv, TypeOK
<1>1. CASE Boot(r)
  <2>1. ProcessTypeOK' /\ HasJob'
    BY <1>1, HeldIsJob DEF Boot, Goto, Hold, ProcessTypeOK, HasJob, HoldPC, Body,
       Runners, WorkerPC, ThreadPC, HandlerPC
  <2>2. WorkerTypeOK'
    BY <1>1, HeldIsJob DEF Boot, Touch, WorkerTypeOK, ProcessTypeOK, Heartbeat, Runners, HoldPC, Body, NoJob
  <2>3. TableTypeOK' /\ RunTypeOK' /\ WebTypeOK'
    BY <1>1 DEF Boot, TableTypeOK, RunTypeOK, WebTypeOK, tableVars, runVars, webVars
  <2> QED
    BY <2>1, <2>2, <2>3
<1>2. CASE Poll(r)
  <2>1. ProcessTypeOK' /\ HasJob'
    BY <1>2, HeldIsJob DEF Poll, Goto, Hold, ProcessTypeOK, HasJob, HoldPC, Body,
       Runners, WorkerPC, ThreadPC, HandlerPC
  <2>2. WorkerTypeOK'
    BY <1>2 DEF Poll, WorkerTypeOK, OldestPending, Pending
  <2>3. TableTypeOK' /\ RunTypeOK' /\ WebTypeOK'
    BY <1>2 DEF Poll, TableTypeOK, RunTypeOK, WebTypeOK, tableVars, runVars, webVars
  <2> QED
    BY <2>1, <2>2, <2>3
<1>3. CASE ClaimWon(r)
  <2>1. TableTypeOK'
    BY <1>3, TableType DEF ClaimWon, WorkerTypeOK
  <2>2. ProcessTypeOK' /\ HasJob'
    BY <1>3, HeldIsJob DEF ClaimWon, WorkerTypeOK, NoJob, Goto, Hold, ProcessTypeOK, HasJob, HoldPC, Body,
       Runners, WorkerPC, ThreadPC, HandlerPC
  <2>3. WorkerTypeOK'
    BY <1>3 DEF ClaimWon, WorkerTypeOK
  <2>4. RunTypeOK' /\ WebTypeOK'
    BY <1>3 DEF ClaimWon, RunTypeOK, WebTypeOK, runVars, webVars
  <2> QED
    BY <2>1, <2>2, <2>3, <2>4
<1>4. CASE ClaimLost(r)
  <2>1. TableTypeOK'
    BY <1>4 DEF ClaimLost, LoseRow, TableTypeOK, tableVars
  <2>2. ProcessTypeOK' /\ HasJob'
    BY <1>4, HeldIsJob DEF ClaimLost, Goto, Hold, ProcessTypeOK, HasJob, HoldPC, Body,
       Runners, WorkerPC, ThreadPC, HandlerPC
  <2>3. WorkerTypeOK'
    BY <1>4 DEF ClaimLost, WorkerTypeOK
  <2>4. RunTypeOK' /\ WebTypeOK'
    BY <1>4 DEF ClaimLost, RunTypeOK, WebTypeOK, runVars, webVars
  <2> QED
    BY <2>1, <2>2, <2>3, <2>4
<1>5. CASE ClaimNone(r)
  <2>1. ProcessTypeOK' /\ HasJob'
    BY <1>5, HeldIsJob DEF ClaimNone, Goto, Hold, ProcessTypeOK, HasJob, HoldPC, Body,
       Runners, WorkerPC, ThreadPC, HandlerPC
  <2>2. TableTypeOK' /\ RunTypeOK' /\ WorkerTypeOK' /\ WebTypeOK'
    BY <1>5 DEF ClaimNone, TableTypeOK, RunTypeOK, WorkerTypeOK, WebTypeOK, tableVars, runVars, workerVars, webVars
  <2> QED
    BY <2>1, <2>2
<1>6. CASE Beat(r)
  <2>1. ProcessTypeOK' /\ HasJob'
    BY <1>6, HeldIsJob DEF Beat, Goto, Hold, ProcessTypeOK, HasJob, HoldPC, Body,
       Runners, WorkerPC, ThreadPC, HandlerPC
  <2>2. WorkerTypeOK'
    BY <1>6, HeldIsJob DEF Beat, Touch, WorkerTypeOK, ProcessTypeOK, Heartbeat, Runners, HoldPC, Body
  <2>3. TableTypeOK' /\ RunTypeOK' /\ WebTypeOK'
    BY <1>6 DEF Beat, TableTypeOK, RunTypeOK, WebTypeOK, tableVars, runVars, webVars
  <2> QED
    BY <2>1, <2>2, <2>3
<1>7. CASE DoneBeat(r)
  <2>1. ProcessTypeOK' /\ HasJob'
    BY <1>7, HeldIsJob DEF DoneBeat, Goto, Hold, ProcessTypeOK, HasJob, HoldPC, Body,
       Runners, WorkerPC, ThreadPC, HandlerPC
  <2>2. WorkerTypeOK'
    BY <1>7, HeldIsJob DEF DoneBeat, Touch, WorkerTypeOK, ProcessTypeOK, Heartbeat, Runners, HoldPC, Body
  <2>3. TableTypeOK' /\ RunTypeOK' /\ WebTypeOK'
    BY <1>7 DEF DoneBeat, TableTypeOK, RunTypeOK, WebTypeOK, tableVars, runVars, webVars
  <2> QED
    BY <2>1, <2>2, <2>3
<1>8. CASE IdleBeat(r)
  <2>1. ProcessTypeOK' /\ HasJob'
    BY <1>8, HeldIsJob DEF IdleBeat, Goto, Hold, ProcessTypeOK, HasJob, HoldPC, Body,
       Runners, WorkerPC, ThreadPC, HandlerPC
  <2>2. WorkerTypeOK'
    BY <1>8, HeldIsJob DEF IdleBeat, Touch, WorkerTypeOK, ProcessTypeOK, Heartbeat, Runners, HoldPC, Body
  <2>3. TableTypeOK' /\ RunTypeOK' /\ WebTypeOK'
    BY <1>8 DEF IdleBeat, TableTypeOK, RunTypeOK, WebTypeOK, tableVars, runVars, webVars
  <2> QED
    BY <2>1, <2>2, <2>3
<1> QED
  BY <1>1, <1>2, <1>3, <1>4, <1>5, <1>6, <1>7, <1>8

LEMMA TypeHandler ==
    ASSUME TypeInv, NEW r \in Handlers, 
           Submit(r) \/ Enqueue(r) \/ InlineStart(r) \/ InlineFinish(r)
           \/ InlineAudit(r) \/ HandlerError(r)
    PROVE  TypeInv'
<1> USE DEF TypeInv, TypeOK
<1>1. CASE Submit(r)
  <2>1. TableTypeOK'
    BY <1>1, TableType DEF Submit
  <2>2. ProcessTypeOK' /\ HasJob'
    BY <1>1, HeldIsJob DEF Submit, NoJob, Goto, Hold, ProcessTypeOK, HasJob, HoldPC, Body,
       Runners, WorkerPC, ThreadPC, HandlerPC
  <2>3. RunTypeOK' /\ WorkerTypeOK' /\ WebTypeOK'
    BY <1>1 DEF Submit, RunTypeOK, WorkerTypeOK, WebTypeOK, runVars, workerVars, webVars
  <2> QED
    BY <2>1, <2>2, <2>3
<1>2. CASE Enqueue(r)
  <2>1. ProcessTypeOK' /\ HasJob'
    BY <1>2, HeldIsJob DEF Enqueue, Goto, Hold, ProcessTypeOK, HasJob, HoldPC, Body,
       Runners, WorkerPC, ThreadPC, HandlerPC
  <2>2. WebTypeOK'
    BY <1>2, HeldIsJob, AppendProperties DEF Enqueue, WebTypeOK, Runners, HoldPC
  <2>3. TableTypeOK' /\ RunTypeOK' /\ WorkerTypeOK'
    BY <1>2 DEF Enqueue, TableTypeOK, RunTypeOK, WorkerTypeOK, tableVars, runVars, workerVars
  <2> QED
    BY <2>1, <2>2, <2>3
<1>3. CASE InlineStart(r)
  <2>1. TableTypeOK'
    BY <1>3, HeldIsJob, TableType DEF InlineStart, Runners, HoldPC, Body
  <2>2. ProcessTypeOK' /\ HasJob'
    BY <1>3, HeldIsJob DEF InlineStart, Goto, Hold, ProcessTypeOK, HasJob, HoldPC, Body,
       Runners, WorkerPC, ThreadPC, HandlerPC
  <2>3. RunTypeOK'
    BY <1>3, HeldIsJob, StartRun DEF InlineStart, Runners, HoldPC
  <2>4. WorkerTypeOK' /\ WebTypeOK'
    BY <1>3 DEF InlineStart, WorkerTypeOK, WebTypeOK, workerVars, webVars
  <2> QED
    BY <2>1, <2>2, <2>3, <2>4
<1>4. CASE InlineFinish(r)
  <2>1. TableTypeOK'
    BY <1>4, HeldIsJob, TableType DEF InlineFinish, Runners, HoldPC, Body
  <2>2. ProcessTypeOK' /\ HasJob'
    BY <1>4, HeldIsJob DEF InlineFinish, Goto, Hold, ProcessTypeOK, HasJob, HoldPC, Body,
       Runners, WorkerPC, ThreadPC, HandlerPC
  <2>3. RunTypeOK' /\ WorkerTypeOK' /\ WebTypeOK'
    BY <1>4 DEF InlineFinish, RunTypeOK, WorkerTypeOK, WebTypeOK, runVars, workerVars, webVars
  <2> QED
    BY <2>1, <2>2, <2>3
<1>5. CASE InlineAudit(r)
  <2>1. ProcessTypeOK' /\ HasJob'
    BY <1>5, HeldIsJob DEF InlineAudit, Goto, Hold, ProcessTypeOK, HasJob, HoldPC, Body,
       Runners, WorkerPC, ThreadPC, HandlerPC
  <2>2. TableTypeOK' /\ RunTypeOK' /\ WorkerTypeOK' /\ WebTypeOK'
    BY <1>5 DEF InlineAudit, TableTypeOK, RunTypeOK, WorkerTypeOK, WebTypeOK, tableVars, runVars, workerVars, webVars
  <2> QED
    BY <2>1, <2>2
<1>6. CASE HandlerError(r)
  <2>1. ProcessTypeOK' /\ HasJob'
    BY <1>6, HeldIsJob DEF HandlerError, Goto, Hold, ProcessTypeOK, HasJob, HoldPC, Body,
       Runners, WorkerPC, ThreadPC, HandlerPC
  <2>2. TableTypeOK' /\ RunTypeOK' /\ WorkerTypeOK' /\ WebTypeOK'
    BY <1>6 DEF HandlerError, TableTypeOK, RunTypeOK, WorkerTypeOK, WebTypeOK, tableVars, runVars, workerVars, webVars
  <2> QED
    BY <2>1, <2>2
<1> QED
  BY <1>1, <1>2, <1>3, <1>4, <1>5, <1>6

LEMMA TypeWeb ==
    ASSUME TypeInv, WebStart \/ WebRecover \/ WebCrash
    PROVE  TypeInv'
<1> USE DEF TypeInv, TypeOK
<1>1. CASE WebStart
  <2>1. ProcessTypeOK' /\ HasJob'
    BY <1>1, HeldIsJob DEF WebStart, Goto, Hold, ProcessTypeOK, HasJob, HoldPC, Body,
       Runners, WorkerPC, ThreadPC, HandlerPC
  <2>2. WebTypeOK'
    BY <1>1 DEF WebStart, WebTypeOK, RunningRows
  <2>3. TableTypeOK' /\ RunTypeOK' /\ WorkerTypeOK'
    BY <1>1 DEF WebStart, TableTypeOK, RunTypeOK, WorkerTypeOK, tableVars, runVars, workerVars
  <2> QED
    BY <2>1, <2>2, <2>3
<1>2. CASE WebRecover
  <2>1. TableTypeOK'
    BY <1>2 DEF WebRecover, RecoverRows, TableTypeOK, JobStatus, ResultStatus, WebTypeOK
  <2>2. ProcessTypeOK' /\ HasJob'
    BY <1>2, HeldIsJob DEF WebRecover, Goto, Hold, ProcessTypeOK, HasJob, HoldPC, Body,
       Runners, WorkerPC, ThreadPC, HandlerPC
  <2>3. WebTypeOK'
    BY <1>2 DEF WebRecover, WebTypeOK
  <2>4. RunTypeOK' /\ WorkerTypeOK'
    BY <1>2 DEF WebRecover, RunTypeOK, WorkerTypeOK, runVars, workerVars
  <2> QED
    BY <2>1, <2>2, <2>3, <2>4
<1>3. CASE WebCrash
  <2>1. ProcessTypeOK' /\ HasJob'
    BY <1>3, HeldIsJob DEF WebCrash, NoJob, ProcessTypeOK, HasJob, HoldPC, Body,
       Runners, WorkerPC, ThreadPC, HandlerPC
  <2>2. WebTypeOK'
    BY <1>3, EmptySeq DEF WebCrash, WebTypeOK
  <2>3. TableTypeOK' /\ RunTypeOK' /\ WorkerTypeOK'
    BY <1>3 DEF WebCrash, TableTypeOK, RunTypeOK, WorkerTypeOK, tableVars, runVars, workerVars
  <2> QED
    BY <2>1, <2>2, <2>3
<1> QED
  BY <1>1, <1>2, <1>3

LEMMA TypeTake ==
    ASSUME TypeInv, NEW t \in Threads, Take(t)
    PROVE  TypeInv'
<1> USE DEF TypeInv, TypeOK
<1>1. Head(pool) \in Jobs /\ Tail(pool) \in Seq(Jobs)
  BY HeadTailProperties DEF Take, WebTypeOK
<1>2. ProcessTypeOK' /\ HasJob'
  BY <1>1 DEF Take, Goto, Hold, ProcessTypeOK, HasJob, HoldPC, Body, NoJob,
     Runners, WorkerPC, ThreadPC, HandlerPC
<1>3. WebTypeOK'
  BY <1>1 DEF Take, WebTypeOK
<1>4. TableTypeOK' /\ RunTypeOK' /\ WorkerTypeOK'
  BY DEF Take, TableTypeOK, RunTypeOK, WorkerTypeOK, tableVars, runVars, workerVars
<1> QED
  BY <1>2, <1>3, <1>4

LEMMA TypeCrash ==
    ASSUME TypeInv, NEW w \in Workers, WorkerCrash(w)
    PROVE  TypeInv'
<1> USE DEF TypeInv, TypeOK
<1>1. ProcessTypeOK' /\ HasJob'
  BY DEF WorkerCrash, Goto, ProcessTypeOK, HasJob, HoldPC, Body,
     Runners, WorkerPC, ThreadPC, HandlerPC
<1>2. TableTypeOK' /\ RunTypeOK' /\ WorkerTypeOK' /\ WebTypeOK'
  BY DEF WorkerCrash, TableTypeOK, RunTypeOK, WorkerTypeOK, WebTypeOK,
     tableVars, runVars, workerVars, webVars
<1> QED
  BY <1>1, <1>2

LEMMA TypeStutter ==
    ASSUME TypeInv, UNCHANGED vars
    PROVE  TypeInv'
BY DEF TypeInv, TypeOK, TableTypeOK, ProcessTypeOK, RunTypeOK, WorkerTypeOK,
       WebTypeOK, HasJob, vars, runVars, workerVars, webVars

\* Every variable stays in its type, and a program counter that says a
\* runner holds a job is right.
THEOREM Typing == Spec => []TypeInv
<1>1. TypeInv /\ [Next]_vars => TypeInv'
  <2> SUFFICES ASSUME TypeInv, [Next]_vars PROVE TypeInv'
    OBVIOUS
  <2>1. ASSUME NEW w \in Workers, WorkerStep(w) \/ WorkerCrash(w) PROVE TypeInv'
    BY <2>1, TypeWorker, TypeBody, TypeCrash DEF WorkerStep
  <2>2. ASSUME NEW t \in Threads, ThreadStep(t) PROVE TypeInv'
    BY <2>2, TypeTake, TypeBody DEF ThreadStep
  <2>3. ASSUME NEW h \in Handlers, Submit(h) \/ HandlerStep(h) PROVE TypeInv'
    BY <2>3, TypeHandler DEF HandlerStep
  <2> QED
    BY <2>1, <2>2, <2>3, TypeWeb, TypeStutter DEF Next
<1> QED
  BY TypeInit, <1>1, PTL DEF Spec

\* TypeOK, the type invariant the runs check.
THEOREM TypeCorrect == Spec => []TypeOK
BY Typing, PTL DEF TypeInv

(***************************************************************************)
(* Exclusion.  What keeps two runners from one job depends on where the    *)
(* job is: in the hands of a runner, in the queue of the executor, or      *)
(* pending in the table for a worker to claim.  The invariant says that    *)
(* these places exclude one another, and that a body not yet begun has     *)
(* never been run.                                                         *)
(***************************************************************************)

\* With the local executor a handler about to enqueue a job counts as holding
\* it; in the external mode it does not, and a worker may claim it meanwhile.
Reserved == OwnPC \cup (IF LocalMode THEN {"enqueue"} ELSE {})
InHand(r, j) == job[r] = j /\ pc[r] \in Reserved
NotBegunPC == {"beat", "start", "enqueue", "inlineStart"}

HandsApart ==
    \A r1, r2 \in Runners : \A j \in Jobs :
        InHand(r1, j) /\ InHand(r2, j) => r1 = r2

QueueApart ==
    /\ \A i, k \in 1..Len(pool) : pool[i] = pool[k] => i = k
    /\ \A i \in 1..Len(pool) : \A r \in Runners : ~InHand(r, pool[i])

HeldExists ==
    /\ \A r \in Runners : \A j \in Jobs :
          job[r] = j /\ pc[r] \in OwnPC \cup {"enqueue"} => status[j] # "absent"
    /\ \A i \in 1..Len(pool) : status[pool[i]] # "absent"

ClaimedNotPending ==
    /\ \A w \in Workers : \A j \in Jobs :
          job[w] = j /\ pc[w] \in OwnPC => status[j] # "pending"
    /\ \A w \in Workers : pc[w] = "claim" => job[w] = NoJob

OneWay ==
    /\ ~LocalMode => pool = <<>> /\ \A t \in Threads : pc[t] = "idle"
    /\ "inline" \notin Kinds => \A h \in Handlers : pc[h] \in {"idle", "enqueue"}

NotBegun ==
    /\ \A r \in Runners : \A j \in Jobs :
          InHand(r, j) /\ pc[r] \in NotBegunPC => runs[j] = 0
    /\ \A i \in 1..Len(pool) : runs[pool[i]] = 0
    /\ \A j \in Jobs : status[j] \in {"absent", "pending"} => runs[j] = 0
    /\ \A j \in Jobs : runs[j] <= 1

ExclInv ==
    /\ HandsApart
    /\ QueueApart
    /\ HeldExists
    /\ ClaimedNotPending
    /\ OneWay
    /\ NotBegun

LEMMA ExclInit == Init => ExclInv
BY DEF Init, TableInit, ExclInv, HandsApart, QueueApart, HeldExists,
       ClaimedNotPending, OneWay, NotBegun, InHand, Reserved, OwnPC, Runners, NoJob

\* A step is quiet if nobody takes hold of a job, nothing enters the queue,
\* no job becomes pending and no body is started.
QuietRunner(r, j) ==
    job'[r] = j =>
        /\ pc'[r] \in OwnPC => job[r] = j /\ pc[r] \in OwnPC
        /\ pc'[r] = "enqueue" => job[r] = j /\ pc[r] = "enqueue"
        /\ pc'[r] \in NotBegunPC => pc[r] \in NotBegunPC

Quiet ==
    /\ \A r \in Runners : \A j \in Jobs : QuietRunner(r, j)
    /\ pool' = pool \/ pool' = <<>>
    /\ \A j \in Jobs :
          /\ status'[j] = "absent" => status[j] = "absent"
          /\ status'[j] = "pending" => status[j] = "pending"
    /\ \A w \in Workers : pc'[w] = "claim" => job'[w] = NoJob
    /\ OneWay'
    /\ runs' = runs

LEMMA QuietKeeps ==
    ASSUME TypeInv, ExclInv, Quiet
    PROVE  ExclInv'
<1> USE DEF ExclInv, Quiet, QuietRunner, InHand, Reserved
<1>0. /\ pool \in Seq(Jobs)
      /\ pool' \in Seq(Jobs)
      /\ \A i \in 1..Len(pool') : i \in 1..Len(pool) /\ pool'[i] = pool[i] /\ pool[i] \in Jobs
  <2>1. pool \in Seq(Jobs)
    BY DEF TypeInv, TypeOK, WebTypeOK
  <2>2. CASE pool' = pool
    BY <2>1, <2>2, ElementOfSeq
  <2>3. CASE pool' = <<>>
    <3>1. pool' \in Seq(Jobs) /\ Len(pool') = 0
      BY <2>3, EmptySeq
    <3> QED
      BY <2>1, <3>1
  <2> QED
    BY <2>2, <2>3
<1>1. HandsApart'
  BY DEF HandsApart
<1>2. QueueApart'
  <2>1. \A i, k \in 1..Len(pool') : pool'[i] = pool'[k] => i = k
    BY <1>0 DEF QueueApart
  <2>2. ASSUME NEW i \in 1..Len(pool'), NEW r \in Runners PROVE ~InHand(r, pool[i])'
    BY <1>0 DEF QueueApart
  <2> QED
    BY <2>1, <2>2 DEF QueueApart
<1>3. HeldExists'
  <2>1. ASSUME NEW r \in Runners, NEW j \in Jobs, job'[r] = j,
               pc'[r] \in OwnPC \cup {"enqueue"}
        PROVE  status'[j] # "absent"
    BY <2>1 DEF HeldExists
  <2>2. \A i \in 1..Len(pool') : status'[pool'[i]] # "absent"
    BY <1>0 DEF HeldExists
  <2> QED
    BY <2>1, <2>2 DEF HeldExists
<1>4. ClaimedNotPending'
  BY DEF ClaimedNotPending, Runners
<1>5. NotBegun'
  <2>1. ASSUME NEW r \in Runners, NEW j \in Jobs, InHand(r, j)', pc'[r] \in NotBegunPC
        PROVE  runs'[j] = 0
    BY <2>1 DEF NotBegun
  <2>2. \A i \in 1..Len(pool') : runs'[pool'[i]] = 0
    BY <1>0 DEF NotBegun
  <2>3. \A j \in Jobs : status'[j] \in {"absent", "pending"} => runs'[j] = 0
    BY DEF NotBegun
  <2> QED
    BY <2>1, <2>2, <2>3 DEF NotBegun
<1> QED
  BY <1>1, <1>2, <1>3, <1>4, <1>5

\* Inside a body only its start is not quiet.
LEMMA QuietBody ==
    ASSUME TypeInv, ExclInv, NEW r \in Workers \cup Threads, BodyStep(r), ~StartJob(r)
    PROVE  Quiet
<1> USE DEF Quiet, QuietRunner, OneWay, OwnPC, NotBegunPC, Goto, Hold, Runners, NoJob,
            webVars, runVars, tableVars, TypeInv, TypeOK, ProcessTypeOK, TableTypeOK,
            ExclInv, ClaimedNotPending
<1>1. CASE Item(r)
  BY <1>1 DEF Item, AddResult
<1>2. CASE FinishJob(r)
  BY <1>2 DEF FinishJob, Finish
<1>3. CASE AuditJob(r)
  BY <1>3 DEF AuditJob, Return
<1>4. CASE Raise(r)
  BY <1>4 DEF Raise
<1>5. CASE FailRow(r)
  BY <1>5 DEF FailRow, AddResult
<1>6. CASE FailFinish(r)
  BY <1>6 DEF FailFinish, Finish, Return
<1>7. CASE Unhandled(r)
  BY <1>7 DEF Unhandled, Escape
<1> QED
  BY <1>1, <1>2, <1>3, <1>4, <1>5, <1>6, <1>7 DEF BodyStep

\* Of the worker's loop only the claim that wins is not quiet.
LEMMA QuietWorker ==
    ASSUME TypeInv, ExclInv, NEW w \in Workers,
           \/ Boot(w) \/ Poll(w) \/ ClaimLost(w) \/ ClaimNone(w)
           \/ Beat(w) \/ DoneBeat(w) \/ IdleBeat(w) \/ WorkerCrash(w)
    PROVE  Quiet
<1> USE DEF Quiet, QuietRunner, OneWay, OwnPC, NotBegunPC, Goto, Hold, Runners, NoJob,
            webVars, runVars, tableVars, TypeInv, TypeOK, ProcessTypeOK, ExclInv
<1>1. CASE Boot(w)
  BY <1>1 DEF Boot, ClaimedNotPending
<1>2. CASE Poll(w)
  BY <1>2 DEF Poll, ClaimedNotPending
<1>3. CASE ClaimLost(w)
  BY <1>3 DEF ClaimLost, LoseRow, ClaimedNotPending
<1>4. CASE ClaimNone(w)
  BY <1>4 DEF ClaimNone, ClaimedNotPending
<1>5. CASE Beat(w)
  BY <1>5 DEF Beat, ClaimedNotPending
<1>6. CASE DoneBeat(w)
  BY <1>6 DEF DoneBeat, ClaimedNotPending
<1>7. CASE IdleBeat(w)
  BY <1>7 DEF IdleBeat, ClaimedNotPending
<1>8. CASE WorkerCrash(w)
  BY <1>8 DEF WorkerCrash, ClaimedNotPending
<1> QED
  BY <1>1, <1>2, <1>3, <1>4, <1>5, <1>6, <1>7, <1>8

\* Nor does the end of a request, or the life of the web process, hand a job
\* to anybody.
LEMMA QuietWeb ==
    ASSUME TypeInv, ExclInv,
           \/ \E h \in Handlers : InlineFinish(h) \/ InlineAudit(h) \/ HandlerError(h)
           \/ WebStart \/ WebRecover \/ WebCrash \/ UNCHANGED vars
    PROVE  Quiet
<1> USE DEF Quiet, QuietRunner, OneWay, OwnPC, NotBegunPC, Goto, Hold, Runners, NoJob,
            webVars, runVars, tableVars, TypeInv, TypeOK, ProcessTypeOK, TableTypeOK,
            ExclInv, ClaimedNotPending
<1>1. ASSUME NEW h \in Handlers, InlineFinish(h) PROVE Quiet
  BY <1>1 DEF InlineFinish, Finish
<1>2. ASSUME NEW h \in Handlers, InlineAudit(h) \/ HandlerError(h) PROVE Quiet
  BY <1>2 DEF InlineAudit, HandlerError
<1>3. CASE WebStart
  BY <1>3 DEF WebStart
<1>4. CASE WebRecover
  BY <1>4 DEF WebRecover, RecoverRows
<1>5. CASE WebCrash
  BY <1>5 DEF WebCrash
<1>6. CASE UNCHANGED vars
  BY <1>6 DEF vars
<1> QED
  BY <1>1, <1>2, <1>3, <1>4, <1>5, <1>6

\* Starting a body: the runner has it in hand, so no other runner has, nor
\* the queue, and this is the first start.
LEMMA StartKeeps ==
    ASSUME TypeInv, ExclInv, NEW r \in Runners, StartJob(r) \/ InlineStart(r)
    PROVE  ExclInv'
<1> DEFINE j == job[r]
<1> USE DEF ExclInv, InHand
<1>1. /\ j \in Jobs
      /\ pc \in [Runners -> WorkerPC \cup ThreadPC \cup HandlerPC]
      /\ runs \in [Jobs -> Nat] /\ status \in [Jobs -> JobStatus]
      /\ pool \in Seq(Jobs)
  BY HeldIsJob DEF TypeInv, TypeOK, ProcessTypeOK, RunTypeOK, TableTypeOK, WebTypeOK,
     StartJob, InlineStart, HoldPC, Body
<1>2. /\ pc[r] \in {"start", "inlineStart"}
      /\ pc' = [pc EXCEPT ![r] = IF pc[r] = "start" THEN "work" ELSE "inlineWork"]
      /\ status' = [status EXCEPT ![j] = "running"]
      /\ runs' = [runs EXCEPT ![j] = @ + 1]
      /\ UNCHANGED <<job, pool>>
  BY DEF StartJob, InlineStart, Start, Goto, webVars
<1> HIDE DEF j
<1>3. \A q \in Runners : \A k \in Jobs :
         /\ InHand(q, k)' => InHand(q, k)
         /\ InHand(q, k)' /\ pc'[q] \in NotBegunPC => q # r /\ pc[q] \in NotBegunPC
  BY <1>1, <1>2 DEF Reserved, OwnPC, NotBegunPC
<1>4. InHand(r, j) /\ runs[j] = 0
  BY <1>1, <1>2 DEF Reserved, OwnPC, NotBegun, NotBegunPC, j
<1>5. \A i \in 1..Len(pool) : pool[i] \in Jobs /\ pool[i] # j
  BY <1>1, <1>4, ElementOfSeq DEF QueueApart
<1>6. HandsApart'
  BY <1>3 DEF HandsApart
<1>7. QueueApart'
  <2>1. \A i \in 1..Len(pool) : \A q \in Runners : ~InHand(q, pool[i])'
    BY <1>2, <1>3, <1>5 DEF QueueApart
  <2> QED
    BY <1>2, <2>1 DEF QueueApart
<1>8. HeldExists'
  BY <1>1, <1>2, <1>5 DEF HeldExists, OwnPC
<1>9. ClaimedNotPending'
  BY <1>1, <1>2 DEF ClaimedNotPending, OwnPC, Runners
<1>10. OneWay'
  BY <1>1, <1>2, ExecutionAssumption DEF OneWay, Runners
<1>11. NotBegun'
  <2>1. ASSUME NEW q \in Runners, NEW k \in Jobs, InHand(q, k)', pc'[q] \in NotBegunPC
        PROVE  runs'[k] = 0
    <3>1. InHand(q, k) /\ q # r /\ pc[q] \in NotBegunPC
      BY <1>3, <2>1
    <3>2. k # j
      BY <1>1, <1>4, <3>1 DEF HandsApart
    <3> QED
      BY <1>1, <1>2, <3>1, <3>2 DEF NotBegun
  <2>2. \A i \in 1..Len(pool') : runs'[pool'[i]] = 0
    BY <1>1, <1>2, <1>5 DEF NotBegun
  <2>3. \A k \in Jobs : status'[k] \in {"absent", "pending"} => runs'[k] = 0
    BY <1>1, <1>2 DEF NotBegun
  <2>4. runs'[j] = 1
    BY <1>1, <1>2, <1>4
  <2>5. \A k \in Jobs : runs'[k] <= 1
    BY <1>1, <1>2, <2>4 DEF NotBegun
  <2> QED
    BY <2>1, <2>2, <2>3, <2>5 DEF NotBegun
<1> QED
  BY <1>6, <1>7, <1>8, <1>9, <1>10, <1>11

\* A claim: the row is pending, and with external workers only the table
\* hands out jobs.
LEMMA ClaimKeeps ==
    ASSUME SingleExecutor, TypeInv, ExclInv, NEW w \in Workers, ClaimWon(w)
    PROVE  ExclInv'
<1> USE DEF ExclInv, InHand
<1>1. PICK j \in Jobs : /\ status[j] = "pending"
                        /\ status' = [status EXCEPT ![j] = "running"]
                        /\ job' = [job EXCEPT ![w] = j]
  BY DEF ClaimWon, ClaimRow, Hold, TypeInv, TypeOK, WorkerTypeOK
<1>2. /\ pc[w] = "claim" /\ pc' = [pc EXCEPT ![w] = "beat"]
      /\ UNCHANGED <<pool, runs>>
  BY DEF ClaimWon, Goto, webVars, runVars
<1>3. ~LocalMode /\ "inline" \notin Kinds
  BY DEF SingleExecutor
<1>4. /\ w \in Runners
      /\ job \in [Runners -> Jobs \cup {NoJob}]
      /\ pc \in [Runners -> WorkerPC \cup ThreadPC \cup HandlerPC]
      /\ status \in [Jobs -> JobStatus]
  BY DEF TypeInv, TypeOK, ProcessTypeOK, TableTypeOK, Runners
<1>5. pool' = <<>> /\ Len(pool') = 0
  BY <1>2, <1>3, EmptySeq DEF OneWay
<1>6. \A r \in Runners : ~InHand(r, j)
  BY <1>1, <1>3 DEF OneWay, ClaimedNotPending, Reserved, OwnPC, Runners
<1>7. \A r \in Runners : \A k \in Jobs :
         InHand(r, k)' <=> IF r = w THEN k = j ELSE InHand(r, k)
  BY <1>1, <1>2, <1>4 DEF Reserved, OwnPC
<1>8. HandsApart'
  BY <1>6, <1>7 DEF HandsApart
<1>9. QueueApart'
  BY <1>5 DEF QueueApart
<1>10. HeldExists'
  <2>1. ASSUME NEW r \in Runners, NEW k \in Jobs, job'[r] = k,
               pc'[r] \in OwnPC \cup {"enqueue"}
        PROVE  status'[k] # "absent"
    BY <1>1, <1>2, <1>4, <2>1 DEF HeldExists
  <2> QED
    BY <1>5, <2>1 DEF HeldExists
<1>11. ClaimedNotPending'
  BY <1>1, <1>2, <1>4 DEF ClaimedNotPending, Runners
<1>12. OneWay'
  BY <1>2, <1>4, ExecutionAssumption DEF OneWay, Runners
<1>13. NotBegun'
  <2>1. ASSUME NEW r \in Runners, NEW k \in Jobs, InHand(r, k)', pc'[r] \in NotBegunPC
        PROVE  runs'[k] = 0
    BY <1>1, <1>2, <1>4, <1>7, <2>1 DEF NotBegun
  <2> QED
    BY <1>1, <1>2, <1>4, <1>5, <2>1 DEF NotBegun
<1> QED
  BY <1>8, <1>9, <1>10, <1>11, <1>12, <1>13

\* A thread takes the head of the queue, which nobody holds.
LEMMA TakeKeeps ==
    ASSUME TypeInv, ExclInv, NEW t \in Threads, Take(t)
    PROVE  ExclInv'
<1> DEFINE j == Head(pool)
<1> USE DEF ExclInv, InHand
<1>1. /\ t \in Runners
      /\ job \in [Runners -> Jobs \cup {NoJob}]
      /\ pc \in [Runners -> WorkerPC \cup ThreadPC \cup HandlerPC]
      /\ pool \in Seq(Jobs) /\ pool # <<>>
  BY DEF TypeInv, TypeOK, ProcessTypeOK, WebTypeOK, Runners, Take
<1>2. /\ pc[t] = "idle" /\ pc' = [pc EXCEPT ![t] = "start"]
      /\ job' = [job EXCEPT ![t] = j]
      /\ pool' = Tail(pool)
      /\ UNCHANGED <<status, runs>>
  BY DEF Take, Goto, Hold, runVars, tableVars
<1>3. /\ 1 \in 1..Len(pool) /\ j = pool[1] /\ j \in Jobs
      /\ Len(pool') = Len(pool) - 1
      /\ \A i \in 1..Len(pool') :
            /\ i + 1 \in 1..Len(pool) /\ i + 1 # 1 /\ pool'[i] = pool[i + 1]
            /\ pool[i + 1] \in Jobs
  BY <1>1, <1>2, HeadTailProperties, EmptySeq, ElementOfSeq
<1> HIDE DEF j
<1>4. \A r \in Runners : ~InHand(r, j)
  BY <1>3 DEF QueueApart
<1>5. \A r \in Runners : \A k \in Jobs :
         InHand(r, k)' <=> IF r = t THEN k = j ELSE InHand(r, k)
  BY <1>1, <1>2 DEF Reserved, OwnPC
<1>6. \A i \in 1..Len(pool') : pool'[i] # j
  BY <1>3 DEF QueueApart
<1>7. HandsApart'
  BY <1>4, <1>5 DEF HandsApart
<1>8. QueueApart'
  <2>1. ASSUME NEW i \in 1..Len(pool'), NEW k \in 1..Len(pool'), pool'[i] = pool'[k]
        PROVE  i = k
    <3>1. i + 1 = k + 1
      BY <1>3, <2>1 DEF QueueApart
    <3> QED
      BY <3>1
  <2>2. ASSUME NEW i \in 1..Len(pool'), NEW r \in Runners
        PROVE  ~InHand(r, pool[i])'
    <3>1. PICK k \in Jobs : k = pool'[i] /\ k = pool[i + 1] /\ k # j
      BY <1>3, <1>6
    <3>2. ~InHand(r, k)
      BY <1>3, <3>1 DEF QueueApart
    <3>3. ~InHand(r, k)'
      BY <1>5, <3>1, <3>2
    <3> QED
      BY <3>1, <3>3
  <2> QED
    BY <2>1, <2>2 DEF QueueApart
<1>9. HeldExists'
  <2>1. ASSUME NEW r \in Runners, NEW k \in Jobs, job'[r] = k,
               pc'[r] \in OwnPC \cup {"enqueue"}
        PROVE  status'[k] # "absent"
    BY <1>1, <1>2, <1>3, <2>1 DEF HeldExists
  <2>2. \A i \in 1..Len(pool') : status'[pool'[i]] # "absent"
    BY <1>2, <1>3 DEF HeldExists
  <2> QED
    BY <2>1, <2>2 DEF HeldExists
<1>10. ClaimedNotPending'
  BY <1>1, <1>2, ExecutionAssumption DEF ClaimedNotPending, Runners
<1>11. OneWay'
  BY <1>1, <1>2, ExecutionAssumption DEF OneWay, Runners
<1>12. NotBegun'
  <2>1. ASSUME NEW r \in Runners, NEW k \in Jobs, InHand(r, k)', pc'[r] \in NotBegunPC
        PROVE  runs'[k] = 0
    BY <1>1, <1>2, <1>3, <1>5, <2>1 DEF NotBegun
  <2>2. \A i \in 1..Len(pool') : runs'[pool'[i]] = 0
    BY <1>2, <1>3 DEF NotBegun
  <2> QED
    BY <1>2, <2>1, <2>2 DEF NotBegun
<1> QED
  BY <1>7, <1>8, <1>9, <1>10, <1>11, <1>12

\* A new job was absent: neither in anybody's hands nor queued.
LEMMA SubmitKeeps ==
    ASSUME TypeInv, ExclInv, NEW h \in Handlers, Submit(h)
    PROVE  ExclInv'
<1> USE DEF ExclInv, InHand
<1>1. PICK j \in Jobs, k \in Kinds :
         /\ status[j] = "absent"
         /\ status' = [status EXCEPT ![j] = "pending"]
         /\ job' = [job EXCEPT ![h] = j]
         /\ pc' = [pc EXCEPT ![h] = IF k = "inline" THEN "inlineStart" ELSE "enqueue"]
  BY DEF Submit, Create, Hold, Goto
<1>2. pc[h] = "idle" /\ UNCHANGED <<pool, runs>>
  BY DEF Submit, webVars, runVars
<1>3. /\ h \in Runners
      /\ job \in [Runners -> Jobs \cup {NoJob}]
      /\ pc \in [Runners -> WorkerPC \cup ThreadPC \cup HandlerPC]
      /\ status \in [Jobs -> JobStatus]
      /\ \A i \in 1..Len(pool) : pool[i] \in Jobs
  BY ElementOfSeq DEF TypeInv, TypeOK, ProcessTypeOK, TableTypeOK, WebTypeOK, Runners
<1>4. \A r \in Runners : ~InHand(r, j)
  BY <1>1 DEF HeldExists, Reserved
<1>5. \A r \in Runners : \A i \in Jobs :
         InHand(r, i)' => IF r = h THEN i = j ELSE InHand(r, i)
  BY <1>1, <1>3 DEF Reserved, OwnPC
<1>6. \A i \in 1..Len(pool) : pool[i] # j
  BY <1>1 DEF HeldExists
<1>7. HandsApart'
  BY <1>4, <1>5 DEF HandsApart
<1>8. QueueApart'
  <2>1. \A i \in 1..Len(pool) : \A r \in Runners : ~InHand(r, pool[i])'
    BY <1>2, <1>3, <1>5, <1>6 DEF QueueApart
  <2> QED
    BY <1>2, <2>1 DEF QueueApart
<1>9. HeldExists'
  <2>1. ASSUME NEW r \in Runners, NEW i \in Jobs, job'[r] = i,
               pc'[r] \in OwnPC \cup {"enqueue"}
        PROVE  status'[i] # "absent"
    BY <1>1, <1>3, <2>1 DEF HeldExists
  <2> QED
    BY <1>1, <1>2, <1>3, <2>1 DEF HeldExists
<1>10. ClaimedNotPending'
  <2>1. ASSUME NEW w \in Workers, NEW i \in Jobs, job'[w] = i, pc'[w] \in OwnPC
        PROVE  status'[i] # "pending"
    <3>1. w # h /\ job[w] = i /\ pc[w] \in OwnPC
      BY <1>1, <1>3, <2>1, ExecutionAssumption DEF Runners
    <3>2. i # j
      BY <1>1, <3>1 DEF HeldExists, Runners
    <3> QED
      BY <1>1, <3>1, <3>2 DEF ClaimedNotPending
  <2>2. \A w \in Workers : pc'[w] = "claim" => job'[w] = NoJob
    BY <1>1, <1>3, ExecutionAssumption DEF ClaimedNotPending, Runners
  <2> QED
    BY <2>1, <2>2 DEF ClaimedNotPending
<1>11. OneWay'
  BY <1>1, <1>2, <1>3, ExecutionAssumption DEF OneWay, Runners
<1>12. NotBegun'
  <2>1. ASSUME NEW r \in Runners, NEW i \in Jobs, InHand(r, i)', pc'[r] \in NotBegunPC
        PROVE  runs'[i] = 0
    <3>1. CASE r = h
      BY <1>1, <1>2, <1>5, <2>1, <3>1 DEF NotBegun
    <3>2. CASE r # h
      BY <1>1, <1>2, <1>3, <1>5, <2>1, <3>2 DEF NotBegun
    <3> QED
      BY <3>1, <3>2
  <2>2. \A i \in Jobs : status'[i] \in {"absent", "pending"} => runs'[i] = 0
    BY <1>1, <1>2, <1>3 DEF NotBegun
  <2> QED
    BY <1>2, <2>1, <2>2 DEF NotBegun
<1> QED
  BY <1>7, <1>8, <1>9, <1>10, <1>11, <1>12

\* The handler that enqueues a job lets go of it.
LEMMA EnqueueKeeps ==
    ASSUME TypeInv, ExclInv, NEW h \in Handlers, Enqueue(h)
    PROVE  ExclInv'
<1> DEFINE j == job[h]
<1> USE DEF ExclInv, InHand
<1>1. /\ h \in Runners /\ j \in Jobs
      /\ job \in [Runners -> Jobs \cup {NoJob}]
      /\ pc \in [Runners -> WorkerPC \cup ThreadPC \cup HandlerPC]
      /\ pool \in Seq(Jobs)
  BY HeldIsJob DEF TypeInv, TypeOK, ProcessTypeOK, WebTypeOK, Runners, Enqueue, HoldPC
<1>2. /\ pc[h] = "enqueue" /\ pc' = [pc EXCEPT ![h] = "idle"]
      /\ job' = [job EXCEPT ![h] = NoJob]
      /\ pool' = IF LocalMode THEN Append(pool, j) ELSE pool
      /\ UNCHANGED <<status, runs>>
  BY DEF Enqueue, Goto, Hold, runVars, tableVars
<1> HIDE DEF j
<1>3. CASE ~LocalMode
  <2>1. Quiet
    <3>1. \A r \in Runners : \A k \in Jobs : QuietRunner(r, k)
      BY <1>1, <1>2 DEF QuietRunner, NoJob, OwnPC, NotBegunPC
    <3>2. \A w \in Workers : pc'[w] = "claim" => job'[w] = NoJob
      BY <1>1, <1>2, ExecutionAssumption DEF ClaimedNotPending, Runners
    <3>3. OneWay'
      BY <1>1, <1>2, <1>3, ExecutionAssumption DEF OneWay, Runners
    <3> QED
      BY <1>2, <1>3, <3>1, <3>2, <3>3 DEF Quiet
  <2> QED
    BY <2>1, QuietKeeps
<1>4. CASE LocalMode
  <2>1. /\ Len(pool) \in Nat /\ Len(pool') = Len(pool) + 1
        /\ \A i \in 1..Len(pool) : pool'[i] = pool[i] /\ pool[i] \in Jobs
        /\ pool'[Len(pool) + 1] = j
    BY <1>1, <1>2, <1>4, AppendProperties, ElementOfSeq
  <2>2. InHand(h, j) /\ runs[j] = 0 /\ status[j] # "absent"
    <3>1. InHand(h, j)
      BY <1>2, <1>4 DEF Reserved, j
    <3> QED
      BY <1>1, <1>2, <3>1 DEF NotBegun, NotBegunPC, HeldExists, Reserved
  <2>3. \A r \in Runners : \A k \in Jobs : InHand(r, k)' => InHand(r, k) /\ k # j
    <3>1. \A r \in Runners : \A k \in Jobs :
             InHand(r, k)' => r # h /\ job[r] = k /\ pc[r] \in Reserved
      BY <1>1, <1>2 DEF Reserved, OwnPC
    <3> QED
      BY <1>1, <2>2, <3>1 DEF HandsApart
  <2>4. \A i \in 1..Len(pool) : pool[i] # j
    BY <1>1, <2>2 DEF QueueApart
  <2>5. HandsApart'
    BY <2>3 DEF HandsApart
  <2>6. QueueApart'
    <3>1. ASSUME NEW i \in 1..Len(pool'), NEW k \in 1..Len(pool'), pool'[i] = pool'[k]
          PROVE  i = k
      BY <2>1, <2>4, <3>1 DEF QueueApart
    <3>2. ASSUME NEW i \in 1..Len(pool'), NEW r \in Runners
          PROVE  ~InHand(r, pool[i])'
      <4>1. CASE i \in 1..Len(pool)
        BY <2>1, <2>3, <4>1 DEF QueueApart
      <4>2. CASE i = Len(pool) + 1
        BY <1>1, <2>1, <2>3, <4>2
      <4> QED
        BY <2>1, <4>1, <4>2
    <3> QED
      BY <3>1, <3>2 DEF QueueApart
  <2>7. HeldExists'
    <3>1. ASSUME NEW r \in Runners, NEW k \in Jobs, job'[r] = k,
                 pc'[r] \in OwnPC \cup {"enqueue"}
          PROVE  status'[k] # "absent"
      BY <1>1, <1>2, <3>1 DEF HeldExists, OwnPC
    <3>2. \A i \in 1..Len(pool') : status'[pool'[i]] # "absent"
      BY <1>2, <2>1, <2>2 DEF HeldExists
    <3> QED
      BY <3>1, <3>2 DEF HeldExists
  <2>8. ClaimedNotPending'
    BY <1>1, <1>2, ExecutionAssumption DEF ClaimedNotPending, Runners
  <2>9. OneWay'
    BY <1>1, <1>2, <1>4 DEF OneWay
  <2>10. NotBegun'
    <3>1. ASSUME NEW r \in Runners, NEW k \in Jobs, InHand(r, k)', pc'[r] \in NotBegunPC
          PROVE  runs'[k] = 0
      BY <1>1, <1>2, <2>3, <3>1 DEF NotBegun, NotBegunPC
    <3>2. \A i \in 1..Len(pool') : runs'[pool'[i]] = 0
      BY <1>2, <2>1, <2>2 DEF NotBegun
    <3> QED
      BY <1>2, <3>1, <3>2 DEF NotBegun
  <2> QED
    BY <2>5, <2>6, <2>7, <2>8, <2>9, <2>10
<1> QED
  BY <1>3, <1>4

\* In a deployment with one way to execute a job, for any number of
\* processes, jobs, crashes and restarts, ExclInv holds ...
THEOREM Exclusion ==
    ASSUME SingleExecutor
    PROVE  Spec => []ExclInv
<1>1. ASSUME TypeInv, ExclInv, [Next]_vars PROVE ExclInv'
  <2>1. ASSUME NEW w \in Workers, WorkerStep(w) \/ WorkerCrash(w) PROVE ExclInv'
    <3>1. CASE StartJob(w)
      BY <1>1, <3>1, StartKeeps DEF Runners
    <3>2. CASE ClaimWon(w)
      BY <1>1, <3>2, ClaimKeeps
    <3> QED
      BY <1>1, <2>1, <3>1, <3>2, QuietBody, QuietWorker, QuietKeeps DEF WorkerStep
  <2>2. ASSUME NEW t \in Threads, ThreadStep(t) PROVE ExclInv'
    <3>1. CASE StartJob(t)
      BY <1>1, <3>1, StartKeeps DEF Runners
    <3> QED
      BY <1>1, <2>2, <3>1, TakeKeeps, QuietBody, QuietKeeps DEF ThreadStep
  <2>3. ASSUME NEW h \in Handlers, Submit(h) \/ HandlerStep(h) PROVE ExclInv'
    <3>1. CASE InlineStart(h)
      BY <1>1, <3>1, StartKeeps DEF Runners
    <3> QED
      BY <1>1, <2>3, <3>1, SubmitKeeps, EnqueueKeeps, QuietWeb, QuietKeeps DEF HandlerStep
  <2>4. CASE WebStart \/ WebRecover \/ WebCrash \/ UNCHANGED vars
    BY <1>1, <2>4, QuietWeb, QuietKeeps
  <2> QED
    BY <1>1, <2>1, <2>2, <2>3, <2>4 DEF Next
<1> QED
  BY ExclInit, Typing, <1>1, PTL DEF Spec

\* ... so no two runners ever hold the same job ...
THEOREM Exclusive ==
    ASSUME SingleExecutor
    PROVE  Spec => []ExclusiveRun
<1>1. ExclInv => ExclusiveRun
  BY DEF ExclInv, HandsApart, InHand, Reserved, ExclusiveRun, Owns
<1> QED
  BY Exclusion, <1>1, PTL

\* ... and the body of a job is started at most once.
THEOREM RunOnce ==
    ASSUME SingleExecutor
    PROVE  Spec => []AtMostOnce
<1>1. ExclInv => AtMostOnce
  BY DEF ExclInv, NotBegun, AtMostOnce
<1> QED
  BY Exclusion, <1>1, PTL
=============================================================================
