------------------------ MODULE JobLifecycle_proofs ------------------------
(* What the jobs table shows, for any number of workers, threads, handlers *)
(* and jobs: that JobExecution goes through the steps of JobLifecycle, and *)
(* that status, result rows, heartbeats and runners agree.                 *)
EXTENDS JobExecution_proofs, FiniteSetTheorems

\* The recovery that a start of the web process runs takes jobs of external
\* workers for orphans.  It finds none if there are no such workers, or if the
\* web process is not started again while they run.
NoRecoveryRace == Workers = {} \/ MaxStarts <= 1

(***************************************************************************)
(* The invariant.  ExclInv says who holds a job; LifeInv says what status  *)
(* and rows the job has, depending on how far its holder is.               *)
(***************************************************************************)

BegunPC == {"work", "audit", "failRow", "failFinish", "inlineWork", "inlineAudit"}

RunnerOK(r) == \A j \in Jobs : InHand(r, j) =>
    /\ pc[r] \in NotBegunPC => status[j] \in {"pending", "running"}
    /\ pc[r] \in BegunPC => runs[j] # 0
    /\ pc[r] \in {"work", "inlineWork"} => status[j] = "running"
    /\ pc[r] = "work" => ("failed" \in rows[j] <=> bad[r])
    /\ pc[r] = "inlineWork" => "failed" \notin rows[j]
    /\ pc[r] \in {"failRow", "failFinish"} => status[j] \in {"running", "success", "failed"}
    /\ pc[r] = "failFinish" => "failed" \in rows[j]
    /\ pc[r] \in {"audit", "inlineAudit"} => status[j] \in Terminal
    /\ pc[r] \in {"failRow", "failFinish"} /\ ~DbMayFail => status[j] = "running"

JobOK(j) ==
    /\ runs[j] = 0 => "failed" \notin rows[j]
    /\ Workers = {} /\ status[j] = "running" => runs[j] # 0
    /\ ~DbMayFail /\ status[j] = "success" => "failed" \notin rows[j]

\* Threads, handlers and queue are gone when the web process is; what the
\* recovery selected is still what is running when it commits.
WebOK ==
    /\ web # "up" => pool = <<>> /\ \A r \in Threads \cup Handlers : pc[r] = "idle"
    /\ orphans = IF web = "recovering" THEN RunningRows ELSE {}
    /\ webStarts = 0 => web = "down"
    /\ MaxStarts <= 1 /\ (webStarts = 0 \/ web = "recovering") =>
          \A j \in Jobs : status[j] = "absent"

QueueOK == \A i \in 1..Len(pool) : status[pool[i]] \in {"pending", "running"}

LifeInv ==
    /\ \A r \in Runners : RunnerOK(r)
    /\ \A j \in Jobs : JobOK(j)
    /\ QueueOK
    /\ WebOK

LEMMA LifeInit == Init => LifeInv
<1> SUFFICES ASSUME Init PROVE LifeInv
  OBVIOUS
<1> USE DEF Init, TableInit
<1>1. \A r \in Runners : RunnerOK(r)
  BY DEF RunnerOK, InHand, Reserved, OwnPC, Runners, NoJob
<1>2. \A j \in Jobs : JobOK(j)
  BY DEF JobOK
<1>3. QueueOK
  BY DEF QueueOK
<1>4. WebOK
  <2>1. \A r \in Threads \cup Handlers : pc[r] = "idle"
    BY ExecutionAssumption DEF Runners
  <2> QED
    BY <2>1 DEF WebOK
<1> QED
  BY <1>1, <1>2, <1>3, <1>4 DEF LifeInv

\* Nobody but r holds j.
Sole(r, j) == \A q \in Runners \ {r} : ~InHand(q, j)

\* What a step of r with the job j leaves alone.
OthersAlone(r, j) ==
    /\ \A q \in Runners \ {r} : pc'[q] = pc[q] /\ job'[q] = job[q] /\ bad'[q] = bad[q]
    /\ \A k \in Jobs \ {j} : status'[k] = status[k] /\ rows'[k] = rows[k] /\ runs'[k] = runs[k]

LEMMA OthersKeep ==
    ASSUME LifeInv, NEW r \in Runners, NEW j \in Jobs, Sole(r, j), OthersAlone(r, j)
    PROVE  /\ \A q \in Runners \ {r} : RunnerOK(q)'
           /\ \A k \in Jobs \ {j} : JobOK(k)'
<1>1. ASSUME NEW q \in Runners \ {r}, NEW k \in Jobs, InHand(q, k)'
      PROVE  InHand(q, k) /\ k # j
  BY <1>1 DEF InHand, Sole, OthersAlone
<1>2. \A q \in Runners \ {r} : RunnerOK(q)'
  BY <1>1 DEF RunnerOK, OthersAlone, LifeInv
<1>3. \A k \in Jobs \ {j} : JobOK(k)'
  BY DEF JobOK, OthersAlone, LifeInv
<1> QED
  BY <1>2, <1>3

\* Who is not idle acts while the web process serves, or is a worker; and if
\* there are jobs at all, not between the two steps of a recovery.
LEMMA WebUp ==
    ASSUME WebOK, NoRecoveryRace, NEW r \in Runners, r \in Workers \/ pc[r] # "idle",
           NEW j \in Jobs, status[j] # "absent"
    PROVE  web # "recovering" /\ (r \in Threads \cup Handlers => web = "up") /\ webStarts # 0
<1>1. CASE r \in Threads \cup Handlers
  <2>1. web = "up"
    BY <1>1, ExecutionAssumption DEF WebOK
  <2> QED
    BY <2>1, <1>1, ExecutionAssumption DEF WebOK
<1>2. CASE r \in Workers
  <2>1. MaxStarts <= 1
    BY <1>2 DEF NoRecoveryRace
  <2> QED
    BY <1>2, <2>1, ExecutionAssumption DEF WebOK
<1> QED
  BY <1>1, <1>2 DEF Runners

\* So such a step keeps what is known of the web process.
LEMMA WebKeeps ==
    ASSUME WebOK, NoRecoveryRace, NEW r \in Runners, r \in Workers \/ pc[r] # "idle",
           NEW j \in Jobs, status[j] # "absent",
           \A q \in Runners \ {r} : pc'[q] = pc[q],
           web = "up" \/ pool' = pool, UNCHANGED <<web, orphans, webStarts>>
    PROVE  WebOK'
<1>1. web # "recovering" /\ (r \in Threads \cup Handlers => web = "up") /\ webStarts # 0
  BY WebUp
<1>2. web # "up" => \A q \in Threads \cup Handlers : q \in Runners \ {r}
  BY <1>1 DEF Runners
<1> QED
  BY <1>1, <1>2 DEF WebOK

-----------------------------------------------------------------------------
(* The steps of a body.                                                    *)

\* A runner in a body is the only one that holds its job, which is not queued.
LEMMA Holder ==
    ASSUME TypeInv, ExclInv, NEW r \in Runners, pc[r] \in OwnPC, job[r] \in Jobs
    PROVE  /\ InHand(r, job[r]) /\ Sole(r, job[r]) /\ status[job[r]] # "absent"
           /\ pc[r] # "idle"
           /\ \A i \in 1..Len(pool) : pool[i] \in Jobs /\ pool[i] # job[r]
<1>1. InHand(r, job[r])
  BY DEF InHand, Reserved
<1>2. Sole(r, job[r])
  BY <1>1 DEF Sole, ExclInv, HandsApart
<1>3. \A i \in 1..Len(pool) : pool[i] \in Jobs /\ pool[i] # job[r]
  BY <1>1, ElementOfSeq DEF ExclInv, QueueApart, TypeInv, TypeOK, WebTypeOK
<1>4. status[job[r]] # "absent"
  BY DEF ExclInv, HeldExists
<1> QED
  BY <1>1, <1>2, <1>3, <1>4 DEF OwnPC

\* What is left to show of a step of a holder: its own part and its job's.
LEMMA HolderKeeps ==
    ASSUME TypeInv, ExclInv, LifeInv, NoRecoveryRace, NEW r \in Runners,
           pc[r] \in OwnPC, NEW j \in Jobs, j = job[r], OthersAlone(r, j),
           RunnerOK(r)', JobOK(j)', UNCHANGED webVars
    PROVE  LifeInv'
<1>1. /\ Sole(r, j) /\ status[j] # "absent" /\ pc[r] # "idle"
      /\ \A i \in 1..Len(pool) : pool[i] \in Jobs /\ pool[i] # j
  BY Holder
<1>2. \A q \in Runners : RunnerOK(q)'
  BY <1>1, OthersKeep
<1>3. \A k \in Jobs : JobOK(k)'
  BY <1>1, OthersKeep
<1>4. QueueOK'
  BY <1>1 DEF QueueOK, LifeInv, OthersAlone, webVars
<1>5. WebOK'
  <2>1. WebOK
    BY DEF LifeInv
  <2> QED
    BY <1>1, <2>1, WebKeeps DEF OthersAlone, webVars
<1> QED
  BY <1>2, <1>3, <1>4, <1>5 DEF LifeInv

\* The holder and its job, as the types say.
LEMMA HolderType ==
    ASSUME TypeInv, NEW r \in Runners, pc[r] \in HoldPC
    PROVE  /\ job[r] \in Jobs
           /\ pc \in [Runners -> WorkerPC \cup ThreadPC \cup HandlerPC]
           /\ job \in [Runners -> Jobs \cup {NoJob}]
           /\ bad \in [Runners -> BOOLEAN]
           /\ status \in [Jobs -> JobStatus] /\ rows \in [Jobs -> SUBSET ResultStatus]
           /\ runs \in [Jobs -> Nat]
BY HeldIsJob DEF TypeInv, TypeOK, ProcessTypeOK, RunTypeOK, TableTypeOK

LEMMA LifeBody ==
    ASSUME TypeInv, ExclInv, LifeInv, NoRecoveryRace,
           NEW r \in Workers \cup Threads, BodyStep(r)
    PROVE  LifeInv'
<1>0. pc[r] \in Body /\ r \in Runners /\ job[r] \in Jobs
  <2>1. pc[r] \in Body
    BY DEF BodyStep, StartJob, Item, FinishJob, AuditJob, Raise, FailRow, FailFinish,
           Unhandled, Body
  <2> QED
    BY <2>1, HolderType DEF Runners, HoldPC
<1> PICK j \in Jobs : j = job[r]
  BY <1>0
<1>1. /\ r \in Runners /\ j \in Jobs /\ j = job[r]
      /\ pc \in [Runners -> WorkerPC \cup ThreadPC \cup HandlerPC]
      /\ job \in [Runners -> Jobs \cup {NoJob}]
      /\ bad \in [Runners -> BOOLEAN]
      /\ status \in [Jobs -> JobStatus] /\ rows \in [Jobs -> SUBSET ResultStatus]
      /\ runs \in [Jobs -> Nat]
  BY <1>0, HolderType DEF Runners, HoldPC
<1>2. pc[r] \in OwnPC /\ InHand(r, j)
  BY <1>0 DEF Body, OwnPC, InHand, Reserved
<1>3. RunnerOK(r) /\ JobOK(j)
  BY <1>1 DEF LifeInv
<1>4. UNCHANGED webVars
  BY DEF BodyStep, StartJob, Item, FinishJob, AuditJob, Raise, FailRow, FailFinish, Unhandled
<1>5. OthersAlone(r, j)
  <2> USE <1>1 DEF OthersAlone, Goto, Hold, runVars, tableVars
  <2>1. CASE StartJob(r) \/ Item(r) \/ Raise(r)
    BY <2>1 DEF StartJob, Start, Item, AddResult, Raise
  <2>2. CASE FinishJob(r) \/ FailRow(r)
    BY <2>2 DEF FinishJob, Finish, FailRow, AddResult
  <2>3. CASE AuditJob(r) \/ FailFinish(r) \/ Unhandled(r)
    BY <2>3 DEF AuditJob, FailFinish, Finish, Unhandled, Return, Escape
  <2> QED
    BY <2>1, <2>2, <2>3 DEF BodyStep
<1>6. RunnerOK(r)' /\ JobOK(j)'
  <2>1. CASE StartJob(r)
    <3>1. runs[j] = 0 /\ pc[r] = "start"
      BY <1>1, <1>2, <2>1 DEF StartJob, ExclInv, NotBegun, NotBegunPC
    <3>2. /\ pc' = [pc EXCEPT ![r] = "work"] /\ job' = job /\ rows' = rows
          /\ status'[j] = "running" /\ runs'[j] = 1 /\ ~bad'[r] /\ "failed" \notin rows[j]
      BY <1>1, <1>3, <3>1, <2>1 DEF StartJob, Start, Goto, JobOK
    <3>3. JobOK(j)'
      BY <3>2 DEF JobOK
    <3>4. RunnerOK(r)'
      BY <1>1, <3>2 DEF RunnerOK, InHand, NotBegunPC
    <3> QED
      BY <3>3, <3>4
  <2>2. CASE Item(r)
    <3>1. PICK o \in ResultStatus :
             /\ rows' = [rows EXCEPT ![j] = @ \cup {o}] /\ status' = status
             /\ bad' = [bad EXCEPT ![r] = @ \/ o = "failed"]
      BY <2>2 DEF Item, AddResult
    <3>2. /\ pc[r] = "work" /\ UNCHANGED <<pc, job, runs>>
          /\ runs[j] # 0 /\ status[j] = "running" /\ ("failed" \in rows[j] <=> bad[r])
      BY <1>1, <1>2, <1>3, <2>2 DEF Item, RunnerOK, BegunPC
    <3>3. "failed" \in rows'[j] <=> bad'[r]
      BY <1>1, <3>1, <3>2
    <3>4. RunnerOK(r)'
      BY <1>1, <3>1, <3>2, <3>3 DEF RunnerOK, InHand, NotBegunPC
    <3> QED
      BY <3>1, <3>2, <3>4 DEF JobOK
  <2>3. CASE FinishJob(r)
    <3>1. /\ pc[r] = "work" /\ UNCHANGED <<job, runs, rows>>
          /\ pc' = [pc EXCEPT ![r] = "audit"]
          /\ status'[j] = IF ~bad[r] THEN "success" ELSE "failed"
      BY <1>1, <2>3 DEF FinishJob, Finish, Goto, runVars
    <3>2. runs[j] # 0 /\ ("failed" \in rows[j] <=> bad[r])
      BY <1>1, <1>2, <1>3, <3>1 DEF RunnerOK, BegunPC
    <3>3. JobOK(j)'
      BY <1>1, <3>1, <3>2 DEF JobOK
    <3>4. RunnerOK(r)'
      BY <1>1, <3>1, <3>2 DEF RunnerOK, InHand, NotBegunPC, Terminal
    <3> QED
      BY <3>3, <3>4
  <2>4. CASE AuditJob(r) \/ Unhandled(r)
    <3>1. /\ UNCHANGED <<status, rows, runs>>
          /\ pc'[r] \in {"doneBeat", "dead", "idle"}
      BY <1>1, <2>4 DEF AuditJob, Unhandled, Return, Escape, Goto, runVars, tableVars
    <3> QED
      BY <1>3, <3>1 DEF RunnerOK, JobOK, InHand, Reserved, OwnPC
  <2>5. CASE Raise(r)
    <3>1. /\ UNCHANGED <<job, status, rows, runs>>
          /\ pc[r] \in {"work", "audit"} /\ (pc[r] = "audit" => DbMayFail)
          /\ pc' = [pc EXCEPT ![r] = "failRow"]
      BY <2>5 DEF Raise, Goto, tableVars
    <3>2. RunnerOK(r)'
      BY <1>1, <1>2, <1>3, <3>1 DEF RunnerOK, InHand, NotBegunPC, BegunPC, Terminal
    <3> QED
      BY <1>3, <3>1, <3>2 DEF JobOK
  <2>6. CASE FailRow(r)
    <3>1. /\ pc[r] = "failRow" /\ UNCHANGED <<job, status, runs>>
          /\ pc' = [pc EXCEPT ![r] = "failFinish"]
          /\ "failed" \in rows'[j]
      BY <1>1, <2>6 DEF FailRow, AddResult, Goto, runVars
    <3>2. runs[j] # 0 /\ (~DbMayFail => status[j] = "running")
      BY <1>1, <1>2, <1>3, <3>1 DEF RunnerOK, BegunPC
    <3>3. RunnerOK(r)'
      BY <1>1, <1>2, <1>3, <3>1 DEF RunnerOK, InHand, NotBegunPC, BegunPC
    <3> QED
      BY <1>1, <1>3, <3>1, <3>2, <3>3 DEF JobOK
  <2>7. CASE FailFinish(r)
    <3>1. /\ pc[r] = "failFinish" /\ UNCHANGED <<rows, runs>>
          /\ pc'[r] \in {"doneBeat", "idle"}
          /\ status'[j] = "failed"
      BY <1>1, <2>7 DEF FailFinish, Finish, Return, Goto, runVars
    <3>2. RunnerOK(r)'
      BY <3>1 DEF RunnerOK, InHand, Reserved, OwnPC
    <3> QED
      BY <1>3, <3>1, <3>2 DEF JobOK
  <2> QED
    BY <2>1, <2>2, <2>3, <2>4, <2>5, <2>6, <2>7 DEF BodyStep
<1> QED
  BY <1>1, <1>2, <1>4, <1>5, <1>6, HolderKeeps

-----------------------------------------------------------------------------
(* The loop of a worker, the handlers and the web process.                 *)

\* A step that writes no job and gives nobody one.
LEMMA LetGo ==
    ASSUME LifeInv, NEW r \in Runners, r \in Workers \/ pc'[r] = "idle",
           UNCHANGED <<status, rows, runs, bad, webVars>>,
           \A q \in Runners \ {r} : pc'[q] = pc[q] /\ job'[q] = job[q],
           \A j \in Jobs : InHand(r, j)' =>
               InHand(r, j) /\ pc[r] \in NotBegunPC /\ pc'[r] \in NotBegunPC
    PROVE  LifeInv'
<1>1. \A q \in Runners \ {r} : RunnerOK(q)'
  BY DEF LifeInv, RunnerOK, InHand
<1>2. RunnerOK(r)'
  <2>1. NotBegunPC \cap (BegunPC \cup {"failRow", "failFinish", "audit", "inlineAudit"}) = {}
    BY DEF NotBegunPC, BegunPC
  <2> QED
    BY <2>1 DEF LifeInv, RunnerOK, BegunPC
<1>3. \A j \in Jobs : JobOK(j)'
  BY DEF LifeInv, JobOK
<1>4. QueueOK' /\ WebOK'
  <2>1. RunningRows' = RunningRows
    BY DEF RunningRows
  <2>2. \A q \in Threads \cup Handlers : q # r => pc'[q] = pc[q]
    BY DEF Runners
  <2> QED
    BY <2>1, <2>2, ExecutionAssumption DEF LifeInv, QueueOK, WebOK, webVars
<1> QED
  BY <1>1, <1>2, <1>3, <1>4 DEF LifeInv

LEMMA LifeLoop ==
    ASSUME TypeInv, ExclInv, LifeInv, NEW w \in Workers,
           Boot(w) \/ Poll(w) \/ ClaimLost(w) \/ ClaimNone(w) \/ Beat(w)
           \/ DoneBeat(w) \/ IdleBeat(w) \/ WorkerCrash(w)
    PROVE  LifeInv'
<1>1. w \in Runners /\ pc \in [Runners -> WorkerPC \cup ThreadPC \cup HandlerPC]
      /\ job \in [Runners -> Jobs \cup {NoJob}]
  BY DEF TypeInv, TypeOK, ProcessTypeOK, Runners
<1>2. UNCHANGED <<status, rows, runs, bad, webVars>>
  BY DEF Boot, Poll, ClaimLost, LoseRow, ClaimNone, Beat, DoneBeat, IdleBeat, WorkerCrash,
         tableVars, runVars
<1>3. \A q \in Runners \ {w} : pc'[q] = pc[q] /\ job'[q] = job[q]
  BY <1>1 DEF Boot, Poll, ClaimLost, ClaimNone, Beat, DoneBeat, IdleBeat, WorkerCrash,
     Goto, Hold
<1>4. \/ pc'[w] \in {"poll", "claim", "idleBeat", "exited", "dead"}
      \/ pc'[w] = "beat" /\ job'[w] = NoJob
      \/ pc[w] = "beat" /\ pc'[w] = "start" /\ job' = job
  <2>1. CASE ClaimNone(w)
    BY <1>1, <2>1 DEF ClaimNone, Goto, ExclInv, ClaimedNotPending
  <2>2. CASE ClaimLost(w)
    BY <1>1, <2>2 DEF ClaimLost, Goto
  <2> QED
    BY <1>1, <2>1, <2>2 DEF Boot, Poll, Beat, DoneBeat, IdleBeat, WorkerCrash, Goto
<1>5. ASSUME NEW j \in Jobs, InHand(w, j)'
      PROVE  InHand(w, j) /\ pc[w] \in NotBegunPC /\ pc'[w] \in NotBegunPC
  <2>1. j # NoJob /\ job'[w] = j /\ pc'[w] \in OwnPC \cup {"enqueue"}
    BY <1>5, JobsAssumption DEF InHand, Reserved, NoJob
  <2>2. pc[w] = "beat" /\ pc'[w] = "start" /\ job' = job
    BY <1>4, <2>1 DEF OwnPC
  <2> QED
    BY <2>1, <2>2 DEF InHand, Reserved, OwnPC, NotBegunPC
<1>6. \A j \in Jobs : InHand(w, j)' =>
         InHand(w, j) /\ pc[w] \in NotBegunPC /\ pc'[w] \in NotBegunPC
  BY <1>5
<1> HIDE DEF InHand
<1> QED
  BY <1>1, <1>2, <1>3, <1>6, LetGo

LEMMA LifeClaim ==
    ASSUME SingleExecutor, NoRecoveryRace, TypeInv, ExclInv, LifeInv,
           NEW w \in Workers, ClaimWon(w)
    PROVE  LifeInv'
<1>1. PICK j \in Jobs : ClaimRow(j) /\ Hold(w, j)
  BY DEF ClaimWon, TypeInv, TypeOK, WorkerTypeOK
<1>2. /\ w \in Runners
      /\ pc \in [Runners -> WorkerPC \cup ThreadPC \cup HandlerPC]
      /\ job \in [Runners -> Jobs \cup {NoJob}]
      /\ status \in [Jobs -> JobStatus]
  BY DEF TypeInv, TypeOK, ProcessTypeOK, TableTypeOK, Runners
<1>3. /\ pc[w] = "claim" /\ pc' = [pc EXCEPT ![w] = "beat"]
      /\ job' = [job EXCEPT ![w] = j]
      /\ status[j] = "pending" /\ status' = [status EXCEPT ![j] = "running"]
      /\ UNCHANGED <<rows, runs, bad, webVars>>
  BY <1>1 DEF ClaimWon, ClaimRow, Goto, Hold, runVars
<1>4. ~LocalMode /\ "inline" \notin Kinds /\ MaxStarts <= 1
  BY DEF SingleExecutor, NoRecoveryRace
<1>5. Sole(w, j)
  <2>1. ASSUME NEW q \in Runners, InHand(q, j) PROVE FALSE
    <3>1. q \in Workers
      BY <1>4, <2>1 DEF Runners, InHand, Reserved, OwnPC, ExclInv, OneWay
    <3> QED
      BY <1>3, <1>4, <2>1, <3>1 DEF InHand, Reserved, ExclInv, ClaimedNotPending
  <2> QED
    BY <2>1 DEF Sole
<1>6. OthersAlone(w, j)
  BY <1>2, <1>3 DEF OthersAlone
<1>7. RunnerOK(w)' /\ JobOK(j)'
  BY <1>2, <1>3 DEF LifeInv, RunnerOK, JobOK, InHand, NotBegunPC, BegunPC
<1>8. (\A r \in Runners : RunnerOK(r)') /\ (\A k \in Jobs : JobOK(k)')
  BY <1>2, <1>5, <1>6, <1>7, OthersKeep
<1>9. QueueOK' /\ WebOK'
  <2>1. QueueOK'
    BY <1>3, <1>4 DEF QueueOK, ExclInv, OneWay, webVars
  <2>2. WebOK'
    BY <1>2, <1>3, <1>6, WebKeeps DEF LifeInv, OthersAlone, webVars
  <2> QED
    BY <2>1, <2>2
<1> QED
  BY <1>8, <1>9 DEF LifeInv

LEMMA LifeTake ==
    ASSUME TypeInv, LifeInv, NEW t \in Threads, Take(t)
    PROVE  LifeInv'
<1>1. /\ t \in Runners
      /\ pc \in [Runners -> WorkerPC \cup ThreadPC \cup HandlerPC]
      /\ job \in [Runners -> Jobs \cup {NoJob}] /\ pool \in Seq(Jobs)
  BY DEF TypeInv, TypeOK, ProcessTypeOK, WebTypeOK, Runners
<1>2. /\ pool # <<>> /\ pool' = Tail(pool) /\ pc' = [pc EXCEPT ![t] = "start"]
      /\ job' = [job EXCEPT ![t] = Head(pool)]
      /\ UNCHANGED <<status, rows, runs, bad, web, orphans, webStarts>>
  BY DEF Take, Goto, Hold, tableVars, runVars
<1>3. /\ Len(pool) # 0 /\ Head(pool) = pool[1] /\ Len(pool') = Len(pool) - 1
      /\ \A i \in 1..Len(pool') : pool'[i] = pool[i + 1]
  BY <1>1, <1>2, HeadTailProperties, EmptySeq
<1>4. Len(pool) \in Nat
  BY <1>1, LenProperties
<1>5. \A q \in Runners \ {t} : RunnerOK(q)'
  BY <1>1, <1>2 DEF LifeInv, RunnerOK, InHand
<1>6. RunnerOK(t)'
  <2>1. status[Head(pool)] \in {"pending", "running"}
    BY <1>3, <1>4 DEF LifeInv, QueueOK
  <2> QED
    BY <1>1, <1>2, <2>1 DEF RunnerOK, InHand, BegunPC
<1>7. \A j \in Jobs : JobOK(j)'
  BY <1>2 DEF LifeInv, JobOK
<1>8. QueueOK'
  BY <1>2, <1>3, <1>4 DEF LifeInv, QueueOK
<1>9. WebOK'
  <2>1. web = "up" /\ RunningRows' = RunningRows
    BY <1>2 DEF LifeInv, WebOK, RunningRows
  <2> QED
    BY <1>2, <2>1 DEF LifeInv, WebOK
<1> QED
  BY <1>5, <1>6, <1>7, <1>8, <1>9 DEF LifeInv

\* A handler acts only while the web process serves.
LEMMA HandlerUp ==
    ASSUME TypeInv, LifeInv, NEW h \in Handlers, Submit(h) \/ HandlerStep(h)
    PROVE  /\ web = "up" /\ webStarts # 0 /\ h \in Runners
           /\ pc \in [Runners -> WorkerPC \cup ThreadPC \cup HandlerPC]
           /\ job \in [Runners -> Jobs \cup {NoJob}]
           /\ status \in [Jobs -> JobStatus] /\ runs \in [Jobs -> Nat]
           /\ pool \in Seq(Jobs)
<1>1. web = "up"
  BY DEF LifeInv, WebOK, Submit, HandlerStep, Enqueue, InlineStart, InlineFinish,
         InlineAudit, HandlerError
<1> QED
  BY <1>1 DEF LifeInv, WebOK, TypeInv, TypeOK, ProcessTypeOK, TableTypeOK, RunTypeOK,
              WebTypeOK, Runners

\* While the web process serves, WebOK has little to say.
LEMMA WebServes ==
    ASSUME web' = "up", webStarts' # 0, orphans' = {}
    PROVE  WebOK'
BY DEF WebOK

LEMMA LifeSubmit ==
    ASSUME TypeInv, ExclInv, LifeInv, NEW h \in Handlers, Submit(h)
    PROVE  LifeInv'
<1>1. PICK j \in Jobs, k \in Kinds :
         /\ status[j] = "absent" /\ status' = [status EXCEPT ![j] = "pending"]
         /\ rows' = rows /\ job' = [job EXCEPT ![h] = j]
         /\ pc' = [pc EXCEPT ![h] = IF k = "inline" THEN "inlineStart" ELSE "enqueue"]
  BY DEF Submit, Create, Hold, Goto
<1>2. UNCHANGED <<runs, bad, webVars>>
  BY DEF Submit, runVars
<1>3. Sole(h, j)
  BY <1>1 DEF Sole, InHand, Reserved, ExclInv, HeldExists
<1>4. OthersAlone(h, j)
  BY <1>1, <1>2, HandlerUp DEF OthersAlone
<1>5. RunnerOK(h)' /\ JobOK(j)'
  <2>1. status'[j] = "pending" /\ JobOK(j)
    BY <1>1, HandlerUp DEF LifeInv
  <2>2. JobOK(j)'
    BY <1>1, <1>2, <2>1 DEF JobOK
  <2>3. RunnerOK(h)'
    BY <1>1, <2>1, HandlerUp DEF RunnerOK, InHand, BegunPC
  <2> QED
    BY <2>2, <2>3
<1>6. (\A r \in Runners : RunnerOK(r)') /\ (\A i \in Jobs : JobOK(i)')
  BY <1>3, <1>4, <1>5, OthersKeep, HandlerUp
<1>7. QueueOK'
  <2>1. \A i \in 1..Len(pool) : pool[i] \in Jobs /\ pool[i] # j
    BY <1>1, HandlerUp, ElementOfSeq DEF LifeInv, QueueOK
  <2> QED
    BY <1>1, <1>2, <2>1, HandlerUp DEF LifeInv, QueueOK, webVars
<1>8. WebOK'
  BY <1>2, HandlerUp, WebServes DEF LifeInv, WebOK, webVars
<1> QED
  BY <1>6, <1>7, <1>8 DEF LifeInv

LEMMA LifeEnqueue ==
    ASSUME TypeInv, ExclInv, LifeInv, NEW h \in Handlers, Enqueue(h)
    PROVE  LifeInv'
<1>1. /\ pc[h] = "enqueue" /\ pc' = [pc EXCEPT ![h] = "idle"]
      /\ job' = [job EXCEPT ![h] = NoJob]
      /\ pool' = IF LocalMode THEN Append(pool, job[h]) ELSE pool
      /\ UNCHANGED <<status, rows, runs, bad, web, orphans, webStarts>>
  BY DEF Enqueue, Goto, Hold, runVars, tableVars
<1>2. /\ web = "up" /\ webStarts # 0 /\ h \in Runners
      /\ pc \in [Runners -> WorkerPC \cup ThreadPC \cup HandlerPC]
      /\ job \in [Runners -> Jobs \cup {NoJob}] /\ pool \in Seq(Jobs)
  BY HandlerUp DEF HandlerStep
<1>3. \A r \in Runners : RunnerOK(r)'
  BY <1>1, <1>2 DEF LifeInv, RunnerOK, InHand, Reserved, OwnPC
<1>4. \A j \in Jobs : JobOK(j)'
  BY <1>1 DEF LifeInv, JobOK
<1>5. QueueOK'
  <2>1. CASE ~LocalMode
    BY <1>1, <2>1 DEF LifeInv, QueueOK
  <2>2. CASE LocalMode
    <3>1. job[h] \in Jobs
      BY <1>1, <1>2, HeldIsJob DEF TypeInv, TypeOK, HoldPC
    <3>2. status[job[h]] \in {"pending", "running"}
      BY <1>1, <1>2, <2>2, <3>1 DEF LifeInv, RunnerOK, InHand, Reserved, NotBegunPC
    <3>3. /\ Len(pool) \in Nat /\ Len(pool') = Len(pool) + 1
          /\ \A i \in 1..Len(pool) : pool'[i] = pool[i]
          /\ pool'[Len(pool) + 1] = job[h]
      BY <1>1, <1>2, <2>2, <3>1, AppendProperties
    <3> QED
      BY <1>1, <3>2, <3>3 DEF LifeInv, QueueOK
  <2> QED
    BY <2>1, <2>2
<1>6. WebOK'
  BY <1>1, <1>2, WebServes DEF LifeInv, WebOK
<1> QED
  BY <1>3, <1>4, <1>5, <1>6 DEF LifeInv

LEMMA LifeInline ==
    ASSUME TypeInv, ExclInv, LifeInv, NoRecoveryRace, NEW h \in Handlers,
           InlineStart(h) \/ InlineFinish(h)
    PROVE  LifeInv'
<1>0. pc[h] \in {"inlineStart", "inlineWork"} /\ h \in Runners /\ job[h] \in Jobs
  BY HolderType DEF InlineStart, InlineFinish, Runners, HoldPC
<1> PICK j \in Jobs : j = job[h]
  BY <1>0
<1>1. /\ h \in Runners /\ j \in Jobs /\ j = job[h]
      /\ pc \in [Runners -> WorkerPC \cup ThreadPC \cup HandlerPC]
      /\ status \in [Jobs -> JobStatus] /\ runs \in [Jobs -> Nat]
  BY <1>0, HolderType DEF HoldPC
<1>2. pc[h] \in OwnPC /\ InHand(h, j)
  BY <1>0 DEF OwnPC, InHand, Reserved
<1>3. RunnerOK(h) /\ JobOK(j)
  BY <1>1 DEF LifeInv
<1>4. UNCHANGED webVars /\ OthersAlone(h, j)
  BY <1>1 DEF InlineStart, Start, InlineFinish, Finish, Goto, runVars, OthersAlone
<1>5. RunnerOK(h)' /\ JobOK(j)'
  <2>1. CASE InlineStart(h)
    <3>1. runs[j] = 0 /\ pc[h] = "inlineStart"
      BY <1>1, <1>2, <2>1 DEF InlineStart, ExclInv, NotBegun, NotBegunPC
    <3>2. /\ pc' = [pc EXCEPT ![h] = "inlineWork"] /\ job' = job /\ rows' = rows
          /\ status'[j] = "running" /\ runs'[j] = 1 /\ "failed" \notin rows[j]
      BY <1>1, <1>3, <3>1, <2>1 DEF InlineStart, Start, Goto, JobOK
    <3>3. JobOK(j)'
      BY <3>2 DEF JobOK
    <3>4. RunnerOK(h)'
      BY <1>1, <3>2 DEF RunnerOK, InHand, NotBegunPC
    <3> QED
      BY <3>3, <3>4
  <2>2. CASE InlineFinish(h)
    <3>1. /\ pc[h] = "inlineWork" /\ UNCHANGED <<job, runs, rows>>
          /\ pc' = [pc EXCEPT ![h] = "inlineAudit"]
          /\ status'[j] \in Terminal
      BY <1>1, <2>2 DEF InlineFinish, Finish, Goto, runVars, Terminal
    <3>2. runs[j] # 0 /\ "failed" \notin rows[j]
      BY <1>1, <1>2, <1>3, <3>1 DEF RunnerOK, BegunPC
    <3>3. JobOK(j)'
      BY <1>1, <3>1, <3>2 DEF JobOK, Terminal
    <3>4. RunnerOK(h)'
      BY <1>1, <3>1, <3>2 DEF RunnerOK, InHand, NotBegunPC, Terminal
    <3> QED
      BY <3>3, <3>4
  <2> QED
    BY <2>1, <2>2
<1> QED
  BY <1>1, <1>2, <1>4, <1>5, HolderKeeps

LEMMA LifeLeave ==
    ASSUME TypeInv, LifeInv, NEW h \in Handlers, InlineAudit(h) \/ HandlerError(h)
    PROVE  LifeInv'
<1>1. /\ h \in Runners
      /\ pc \in [Runners -> WorkerPC \cup ThreadPC \cup HandlerPC]
      /\ job \in [Runners -> Jobs \cup {NoJob}]
  BY HandlerUp DEF HandlerStep
<1>2. /\ UNCHANGED <<status, rows, runs, bad, webVars>>
      /\ pc' = [pc EXCEPT ![h] = "idle"] /\ job' = [job EXCEPT ![h] = NoJob]
  BY DEF InlineAudit, HandlerError, Goto, Hold, tableVars, runVars
<1>3. \A j \in Jobs : ~InHand(h, j)'
  BY <1>1, <1>2 DEF InHand, Reserved, OwnPC
<1> QED
  BY <1>1, <1>2, <1>3, LetGo

\* Without external workers nobody is in a job while the web process is down
\* or recovers; with them, and one start, there is no job yet.
LEMMA RecoveryAlone ==
    ASSUME LifeInv, NoRecoveryRace, web # "up", web = "recovering" \/ webStarts = 0
    PROVE  \/ Workers = {} /\ \A r \in Runners : pc[r] = "idle"
           \/ MaxStarts <= 1 /\ \A j \in Jobs : status[j] = "absent"
BY DEF LifeInv, WebOK, NoRecoveryRace, Runners

LEMMA LifeWeb ==
    ASSUME TypeInv, LifeInv, NoRecoveryRace, WebStart \/ WebRecover \/ WebCrash
    PROVE  LifeInv'
<1> USE DEF LifeInv
<1>1. /\ webStarts \in Nat /\ MaxStarts \in Nat
      /\ pc \in [Runners -> WorkerPC \cup ThreadPC \cup HandlerPC]
      /\ status \in [Jobs -> JobStatus] /\ rows \in [Jobs -> SUBSET ResultStatus]
      /\ webStarts <= MaxStarts
  BY ExecutionAssumption DEF TypeInv, TypeOK, WebTypeOK, ProcessTypeOK, TableTypeOK
<1>2. CASE WebStart
  <2>1. /\ web = "down" /\ web' = "recovering" /\ webStarts < MaxStarts
        /\ webStarts' = webStarts + 1 /\ orphans' = RunningRows
        /\ UNCHANGED <<status, rows, pc, job, bad, runs, pool>>
    BY <1>2 DEF WebStart, tableVars, runVars
  <2>2. (\A r \in Runners : RunnerOK(r)') /\ (\A j \in Jobs : JobOK(j)') /\ QueueOK'
    BY <2>1 DEF RunnerOK, InHand, JobOK, QueueOK
  <2>3. MaxStarts <= 1 => webStarts = 0
    BY <1>1, <2>1
  <2>4. RunningRows' = RunningRows
    BY <2>1 DEF RunningRows
  <2>5. WebOK'
    BY <1>1, <2>1, <2>3, <2>4 DEF WebOK
  <2> QED
    BY <2>2, <2>5
<1>3. CASE WebRecover
  <2>1. /\ web = "recovering" /\ web' = "up" /\ orphans' = {} /\ orphans = RunningRows
        /\ status' = [j \in Jobs |-> IF j \in orphans THEN "failed" ELSE status[j]]
        /\ rows' = [j \in Jobs |-> IF j \in orphans THEN rows[j] \cup {"failed"} ELSE rows[j]]
        /\ UNCHANGED <<pc, job, bad, runs, pool, webStarts>> /\ pool = <<>>
    BY <1>3 DEF WebRecover, RecoverRows, runVars, WebOK
  <2>2. \/ Workers = {} /\ \A r \in Runners : pc[r] = "idle"
        \/ RunningRows = {}
    BY <2>1, RecoveryAlone DEF RunningRows
  <2>3. \A r \in Runners : RunnerOK(r)'
    <3>1. CASE RunningRows = {}
      BY <1>1, <2>1, <3>1 DEF RunnerOK, InHand
    <3>2. CASE \A r \in Runners : pc[r] = "idle"
      BY <2>1, <3>2 DEF RunnerOK, InHand, Reserved, OwnPC
    <3> QED
      BY <2>2, <3>1, <3>2
  <2>4. \A j \in Jobs : JobOK(j)'
    <3>1. ASSUME NEW j \in orphans PROVE Workers = {} /\ status[j] = "running" /\ j \in Jobs
      BY <2>1, <2>2 DEF RunningRows
    <3>2. ASSUME NEW j \in Jobs, j \in orphans PROVE JobOK(j)'
      <4>1. runs[j] # 0 /\ status'[j] = "failed"
        BY <2>1, <3>1, <3>2 DEF JobOK
      <4> QED
        BY <2>1, <4>1 DEF JobOK
    <3>3. ASSUME NEW j \in Jobs, j \notin orphans PROVE JobOK(j)'
      BY <2>1, <3>3 DEF JobOK
    <3> QED
      BY <3>2, <3>3
  <2>5. QueueOK'
    BY <2>1, EmptySeq DEF QueueOK
  <2>6. WebOK'
    BY <2>1, WebServes DEF WebOK
  <2> QED
    BY <2>3, <2>4, <2>5, <2>6
<1>4. CASE WebCrash
  <2>1. /\ web # "down" /\ web' = "down" /\ webStarts < MaxStarts
        /\ orphans' = {} /\ pool' = <<>>
        /\ pc' = [r \in Runners |-> IF r \in Workers THEN pc[r] ELSE "idle"]
        /\ job' = [r \in Runners |-> IF r \in Workers THEN job[r] ELSE NoJob]
        /\ UNCHANGED <<status, rows, bad, runs, webStarts>>
    BY <1>4 DEF WebCrash, tableVars, runVars
  <2>2. \A r \in Runners : RunnerOK(r)'
    BY <2>1 DEF RunnerOK, InHand, Reserved, OwnPC
  <2>3. \A j \in Jobs : JobOK(j)'
    BY <2>1 DEF JobOK
  <2>4. QueueOK'
    BY <2>1, EmptySeq DEF QueueOK
  <2>5. WebOK'
    <3>1. webStarts # 0 /\ ~(MaxStarts <= 1)
      BY <1>1, <2>1 DEF WebOK
    <3>2. \A r \in Threads \cup Handlers : pc'[r] = "idle"
      BY <2>1, ExecutionAssumption DEF Runners
    <3> QED
      BY <2>1, <3>1, <3>2 DEF WebOK
  <2> QED
    BY <2>2, <2>3, <2>4, <2>5
<1> QED
  BY <1>2, <1>3, <1>4

LEMMA LifeStutter ==
    ASSUME LifeInv, UNCHANGED vars
    PROVE  LifeInv'
BY DEF LifeInv, RunnerOK, JobOK, QueueOK, WebOK, InHand, RunningRows,
       vars, runVars, webVars

LEMMA LifeNext ==
    ASSUME SingleExecutor, NoRecoveryRace, TypeInv, ExclInv, LifeInv, [Next]_vars
    PROVE  LifeInv'
<1>1. ASSUME NEW w \in Workers, WorkerStep(w) \/ WorkerCrash(w) PROVE LifeInv'
  BY <1>1, LifeLoop, LifeClaim, LifeBody DEF WorkerStep
<1>2. ASSUME NEW t \in Threads, ThreadStep(t) PROVE LifeInv'
  BY <1>2, LifeTake, LifeBody DEF ThreadStep
<1>3. ASSUME NEW h \in Handlers, Submit(h) \/ HandlerStep(h) PROVE LifeInv'
  BY <1>3, LifeSubmit, LifeEnqueue, LifeInline, LifeLeave DEF HandlerStep
<1> QED
  BY <1>1, <1>2, <1>3, LifeWeb, LifeStutter DEF Next

\* Where one executor serves the jobs and no recovery meets a live worker,
\* status and result rows are those of the step the job's holder is at.
THEOREM Life ==
    ASSUME SingleExecutor, NoRecoveryRace
    PROVE  Spec => [](TypeInv /\ ExclInv /\ LifeInv)
<1>1. TypeInv /\ ExclInv /\ LifeInv /\ [Next]_vars => LifeInv'
  BY LifeNext
<1> QED
  BY Typing, Exclusion, LifeInit, <1>1, PTL DEF Spec

(***************************************************************************)
(* The lifecycle.  Each step of JobExecution is one of JobLifecycle's, or  *)
(* changes nothing that JobLifecycle shows.                                *)
(***************************************************************************)

LifeStep == [Lifecycle!LNext]_(Lifecycle!lifeVars)

LEMMA LStutter ==
    ASSUME UNCHANGED <<status, rows, runs>>
    PROVE  LifeStep
BY DEF LifeStep, Lifecycle!lifeVars

\* What JobLifecycle sees of the tables and the history, before and after.
begunNow == [i \in Jobs |-> runs[i] > 0]
failedNow == [i \in Jobs |-> "failed" \in rows[i]]

LEMMA BegunOne ==
    ASSUME runs \in [Jobs -> Nat], NEW j \in Jobs, runs' = [runs EXCEPT ![j] = @ + 1]
    PROVE  begunNow' = [begunNow EXCEPT ![j] = TRUE]
<1>1. runs'[j] > 0 /\ \A i \in Jobs \ {j} : runs'[i] = runs[i]
  OBVIOUS
<1> QED
  BY <1>1 DEF begunNow

LEMMA FailedOne ==
    ASSUME rows \in [Jobs -> SUBSET ResultStatus], NEW j \in Jobs,
           rows' = [rows EXCEPT ![j] = @ \cup {"failed"}]
    PROVE  failedNow' = [failedNow EXCEPT ![j] = TRUE]
<1>1. "failed" \in rows'[j] /\ \A i \in Jobs \ {j} : rows'[i] = rows[i]
  OBVIOUS
<1> QED
  BY <1>1 DEF failedNow

LEMMA FailedSame ==
    ASSUME rows \in [Jobs -> SUBSET ResultStatus], NEW j \in Jobs, NEW o, o # "failed",
           rows' = [rows EXCEPT ![j] = @ \cup {o}]
    PROVE  failedNow' = failedNow
<1>1. \A i \in Jobs : ("failed" \in rows'[i]) = ("failed" \in rows[i])
  OBVIOUS
<1> QED
  BY <1>1 DEF failedNow

LEMMA NowAt ==
    ASSUME runs \in [Jobs -> Nat], NEW j \in Jobs
    PROVE  /\ begunNow[j] <=> runs[j] # 0
           /\ failedNow[j] <=> "failed" \in rows[j]
<1>1. begunNow[j] = (runs[j] > 0)
  BY Zenon DEF begunNow
<1>2. failedNow[j] = ("failed" \in rows[j])
  BY Zenon DEF failedNow
<1>3. runs[j] > 0 <=> runs[j] # 0
  OBVIOUS
<1> QED
  BY <1>1, <1>2, <1>3

LEMMA LBody ==
    ASSUME TypeInv, ExclInv, LifeInv, NEW r \in Workers \cup Threads, BodyStep(r)
    PROVE  LifeStep
<1>0. pc[r] \in Body /\ r \in Runners /\ job[r] \in Jobs
  <2>1. pc[r] \in Body
    BY DEF BodyStep, StartJob, Item, FinishJob, AuditJob, Raise, FailRow, FailFinish,
           Unhandled, Body
  <2> QED
    BY <2>1, HolderType DEF Runners, HoldPC
<1> PICK j \in Jobs : j = job[r]
  BY <1>0
<1>1. /\ j \in Jobs /\ j = job[r]
      /\ bad \in [Runners -> BOOLEAN]
      /\ status \in [Jobs -> JobStatus] /\ rows \in [Jobs -> SUBSET ResultStatus]
      /\ runs \in [Jobs -> Nat]
  BY <1>0, HolderType DEF Runners, HoldPC
<1>2. InHand(r, j)
  BY <1>0 DEF Body, OwnPC, InHand, Reserved
<1>3. RunnerOK(r) /\ JobOK(j)
  BY <1>0 DEF LifeInv
<1> USE DEF Lifecycle!lifeVars
<1>4. CASE StartJob(r)
  <2>1. runs[j] = 0 /\ status[j] \in {"pending", "running"}
    BY <1>0, <1>2, <1>3, <1>4 DEF StartJob, ExclInv, NotBegun, NotBegunPC, RunnerOK
  <2>2. /\ status' = [status EXCEPT ![j] = "running"] /\ rows' = rows
        /\ runs' = [runs EXCEPT ![j] = @ + 1]
    BY <1>4 DEF StartJob, Start
  <2>3. Lifecycle!Begun(j)
    <3>1. /\ begunNow' = [begunNow EXCEPT ![j] = TRUE] /\ failedNow' = failedNow
          /\ ~begunNow[j]
      BY <1>1, <2>1, <2>2, BegunOne, NowAt DEF failedNow
    <3> QED
      BY <2>1, <2>2, <3>1 DEF Lifecycle!Begun, begunNow, failedNow
  <2> QED
    BY <2>3 DEF LifeStep, Lifecycle!LNext
<1>5. CASE Item(r)
  <2>1. runs[j] # 0 /\ status[j] = "running"
    BY <1>2, <1>3, <1>5 DEF Item, RunnerOK, BegunPC
  <2>2. PICK o \in ResultStatus : rows' = [rows EXCEPT ![j] = @ \cup {o}]
    BY <1>5 DEF Item, AddResult
  <2>3. UNCHANGED <<status, runs>>
    BY <1>5 DEF Item, AddResult
  <2>4. CASE o = "failed"
    <3>1. Lifecycle!Recorded(j)
      <4>1. failedNow' = [failedNow EXCEPT ![j] = TRUE] /\ begunNow' = begunNow /\ begunNow[j]
        BY <1>1, <2>1, <2>2, <2>3, <2>4, FailedOne, NowAt DEF begunNow
      <4> QED
        BY <2>1, <2>3, <4>1 DEF Lifecycle!Recorded, begunNow, failedNow
    <3> QED
      BY <3>1 DEF LifeStep, Lifecycle!LNext
  <2>5. CASE o # "failed"
    <3>1. failedNow' = failedNow /\ begunNow' = begunNow
      BY <1>1, <2>2, <2>3, <2>5, FailedSame DEF begunNow
    <3> QED
      BY <2>3, <3>1 DEF LifeStep, begunNow, failedNow
  <2> QED
    BY <2>4, <2>5
<1>6. CASE FinishJob(r)
  <2>1. runs[j] # 0 /\ status[j] = "running" /\ ("failed" \in rows[j] <=> bad[r])
    BY <1>2, <1>3, <1>6 DEF FinishJob, RunnerOK, BegunPC
  <2>2. /\ status' = [status EXCEPT ![j] = IF ~bad[r] THEN "success" ELSE "failed"]
        /\ UNCHANGED <<rows, runs>>
    BY <1>6 DEF FinishJob, Finish, runVars
  <2>3. CASE bad[r]
    <3>1. Lifecycle!Failed(j)
      <4>1. failedNow' = failedNow /\ begunNow' = begunNow /\ begunNow[j]
            /\ (failedNow[j] <=> "failed" \in rows[j])
        BY <1>1, <2>1, <2>2, NowAt DEF begunNow, failedNow
      <4> QED
        BY <2>1, <2>2, <2>3, <4>1 DEF Lifecycle!Failed, begunNow, failedNow
    <3> QED
      BY <3>1 DEF LifeStep, Lifecycle!LNext
  <2>4. CASE ~bad[r]
    <3>1. Lifecycle!Succeeded(j)
      <4>1. failedNow' = failedNow /\ begunNow' = begunNow /\ begunNow[j]
            /\ (failedNow[j] <=> "failed" \in rows[j])
        BY <1>1, <2>1, <2>2, NowAt DEF begunNow, failedNow
      <4> QED
        BY <2>1, <2>2, <2>4, <4>1 DEF Lifecycle!Succeeded, begunNow, failedNow
    <3> QED
      BY <3>1 DEF LifeStep, Lifecycle!LNext
  <2> QED
    BY <2>3, <2>4
<1>7. CASE AuditJob(r) \/ Raise(r) \/ Unhandled(r)
  <2>1. UNCHANGED <<status, rows, runs>>
    BY <1>7 DEF AuditJob, Raise, Unhandled, tableVars, runVars
  <2> QED
    BY <2>1, LStutter
<1>8. CASE FailRow(r)
  <2>1. runs[j] # 0 /\ status[j] \in {"running", "success", "failed"}
    BY <1>2, <1>3, <1>8 DEF FailRow, RunnerOK, BegunPC
  <2>2. rows' = [rows EXCEPT ![j] = @ \cup {"failed"}] /\ UNCHANGED <<status, runs>>
    BY <1>8 DEF FailRow, AddResult, runVars
  <2>3. Lifecycle!Recorded(j)
    <3>1. failedNow' = [failedNow EXCEPT ![j] = TRUE] /\ begunNow' = begunNow /\ begunNow[j]
      BY <1>1, <2>1, <2>2, FailedOne, NowAt DEF begunNow
    <3> QED
      BY <2>1, <2>2, <3>1 DEF Lifecycle!Recorded, begunNow, failedNow
  <2> QED
    BY <2>3 DEF LifeStep, Lifecycle!LNext
<1>9. CASE FailFinish(r)
  <2>1. runs[j] # 0 /\ status[j] \in {"running", "success", "failed"} /\ "failed" \in rows[j]
    BY <1>2, <1>3, <1>9 DEF FailFinish, RunnerOK, BegunPC
  <2>2. status' = [status EXCEPT ![j] = "failed"] /\ UNCHANGED <<rows, runs>>
    BY <1>9 DEF FailFinish, Finish, runVars
  <2>3. CASE status[j] = "running"
    <3>1. Lifecycle!Failed(j)
      <4>1. failedNow' = failedNow /\ begunNow' = begunNow /\ begunNow[j]
            /\ (failedNow[j] <=> "failed" \in rows[j])
        BY <1>1, <2>1, <2>2, NowAt DEF begunNow, failedNow
      <4> QED
        BY <2>1, <2>2, <2>3, <4>1 DEF Lifecycle!Failed, begunNow, failedNow
    <3> QED
      BY <3>1 DEF LifeStep, Lifecycle!LNext
  <2>4. CASE status[j] = "success"
    <3>1. Lifecycle!Withdrawn(j)
      BY <1>1, <2>1, <2>2, <2>4 DEF Lifecycle!Withdrawn
    <3> QED
      BY <3>1 DEF LifeStep, Lifecycle!LNext
  <2>5. CASE status[j] = "failed"
    <3>1. status' = status
      BY <1>1, <2>2, <2>5
    <3> QED
      BY <2>2, <3>1, LStutter
  <2> QED
    BY <2>1, <2>3, <2>4, <2>5
<1> QED
  BY <1>4, <1>5, <1>6, <1>7, <1>8, <1>9 DEF BodyStep

\* The status of one job changes, and nothing else that JobLifecycle shows.
LEMMA LStatus ==
    ASSUME UNCHANGED <<rows, runs>>,
           \E j \in Jobs :
              \/ status[j] = "absent" /\ status' = [status EXCEPT ![j] = "pending"]
              \/ status[j] = "pending" /\ status' = [status EXCEPT ![j] = "running"]
    PROVE  LifeStep
<1>1. begunNow' = begunNow /\ failedNow' = failedNow
  BY DEF begunNow, failedNow
<1>2. PICK j \in Jobs : Lifecycle!Submitted(j) \/ Lifecycle!Taken(j)
  BY <1>1 DEF Lifecycle!Submitted, Lifecycle!Taken, begunNow, failedNow
<1> QED
  BY <1>2 DEF LifeStep, Lifecycle!LNext

LEMMA LInline ==
    ASSUME TypeInv, ExclInv, LifeInv, NEW h \in Handlers,
           InlineStart(h) \/ InlineFinish(h)
    PROVE  LifeStep
<1>0. pc[h] \in {"inlineStart", "inlineWork"} /\ h \in Runners /\ job[h] \in Jobs
  BY HolderType DEF InlineStart, InlineFinish, Runners, HoldPC
<1> PICK j \in Jobs : j = job[h]
  BY <1>0
<1>1. /\ j \in Jobs /\ j = job[h]
      /\ status \in [Jobs -> JobStatus] /\ rows \in [Jobs -> SUBSET ResultStatus]
      /\ runs \in [Jobs -> Nat]
  BY <1>0, HolderType DEF HoldPC
<1>2. InHand(h, j) /\ RunnerOK(h)
  BY <1>0 DEF OwnPC, InHand, Reserved, LifeInv
<1>3. CASE InlineStart(h)
  <2>1. runs[j] = 0 /\ status[j] \in {"pending", "running"}
    BY <1>2, <1>0, <1>3 DEF InlineStart, ExclInv, NotBegun, NotBegunPC, RunnerOK
  <2>2. /\ status' = [status EXCEPT ![j] = "running"] /\ rows' = rows
        /\ runs' = [runs EXCEPT ![j] = @ + 1]
    BY <1>3 DEF InlineStart, Start
  <2>3. Lifecycle!Begun(j)
    <3>1. /\ begunNow' = [begunNow EXCEPT ![j] = TRUE] /\ failedNow' = failedNow
          /\ ~begunNow[j]
      BY <1>1, <2>1, <2>2, BegunOne, NowAt DEF failedNow
    <3> QED
      BY <2>1, <2>2, <3>1 DEF Lifecycle!Begun, begunNow, failedNow
  <2> QED
    BY <2>3 DEF LifeStep, Lifecycle!LNext
<1>4. CASE InlineFinish(h)
  <2>1. runs[j] # 0 /\ status[j] = "running" /\ "failed" \notin rows[j]
    BY <1>2, <1>4 DEF InlineFinish, RunnerOK, BegunPC
  <2>2. PICK success \in BOOLEAN :
           status' = [status EXCEPT ![j] = IF success THEN "success" ELSE "failed"]
    BY <1>4 DEF InlineFinish, Finish
  <2>3. failedNow' = failedNow /\ begunNow' = begunNow /\ begunNow[j] /\ ~failedNow[j]
    BY <1>1, <1>4, <2>1, NowAt DEF InlineFinish, Finish, runVars, begunNow, failedNow
  <2>4. Lifecycle!Succeeded(j) \/ Lifecycle!Failed(j)
    BY <2>1, <2>2, <2>3 DEF Lifecycle!Succeeded, Lifecycle!Failed, begunNow, failedNow
  <2> QED
    BY <2>4 DEF LifeStep, Lifecycle!LNext
<1> QED
  BY <1>3, <1>4

LEMMA LRecover ==
    ASSUME TypeInv, LifeInv, WebRecover
    PROVE  LifeStep
<1>1. /\ orphans = RunningRows /\ runs' = runs
      /\ status' = [j \in Jobs |-> IF j \in orphans THEN "failed" ELSE status[j]]
      /\ rows' = [j \in Jobs |-> IF j \in orphans THEN rows[j] \cup {"failed"} ELSE rows[j]]
  BY DEF WebRecover, RecoverRows, runVars, LifeInv, WebOK
<1>2. \A j \in Jobs : j \in orphans <=> status[j] = "running"
  BY <1>1 DEF RunningRows
<1>3. status' = [j \in Jobs |-> IF status[j] = "running" THEN "failed" ELSE status[j]]
  BY <1>1, <1>2
<1>4. \A j \in Jobs : ("failed" \in rows'[j]) = ("failed" \in rows[j] \/ status[j] = "running")
  <2> TAKE j \in Jobs
  <2>1. CASE status[j] = "running"
    BY <1>1, <1>2, <2>1
  <2>2. CASE status[j] # "running"
    BY <1>1, <1>2, <2>2
  <2> QED
    BY <2>1, <2>2
<1>5. failedNow' = [j \in Jobs |-> "failed" \in rows[j] \/ status[j] = "running"]
  BY <1>4 DEF failedNow
<1>6. begunNow' = begunNow
  BY <1>1 DEF begunNow
<1>7. Lifecycle!Orphaned
  BY <1>3, <1>5, <1>6 DEF Lifecycle!Orphaned, begunNow, failedNow
<1> QED
  BY <1>7 DEF LifeStep, Lifecycle!LNext

LEMMA LNextStep ==
    ASSUME TypeInv, ExclInv, LifeInv, [Next]_vars
    PROVE  LifeStep
<1>1. ASSUME NEW w \in Workers, WorkerStep(w) \/ WorkerCrash(w) PROVE LifeStep
  <2>1. CASE BodyStep(w)
    BY <2>1, LBody
  <2>2. CASE ClaimWon(w)
    <3>1. \E j \in Jobs : ClaimRow(j)
      BY <2>2 DEF ClaimWon, TypeInv, TypeOK, WorkerTypeOK
    <3> QED
      BY <2>2, <3>1, LStatus DEF ClaimWon, ClaimRow, runVars
  <2>3. CASE Boot(w) \/ Poll(w) \/ ClaimLost(w) \/ ClaimNone(w) \/ Beat(w)
             \/ DoneBeat(w) \/ IdleBeat(w) \/ WorkerCrash(w)
    <3>1. UNCHANGED <<status, rows, runs>>
      BY <2>3 DEF Boot, Poll, ClaimLost, LoseRow, ClaimNone, Beat, DoneBeat, IdleBeat,
         WorkerCrash, tableVars, runVars
    <3> QED
      BY <3>1, LStutter
  <2> QED
    BY <1>1, <2>1, <2>2, <2>3 DEF WorkerStep
<1>2. ASSUME NEW t \in Threads, ThreadStep(t) PROVE LifeStep
  <2>1. Take(t) => UNCHANGED <<status, rows, runs>>
    BY DEF Take, tableVars, runVars
  <2> QED
    BY <1>2, <2>1, LBody, LStutter DEF ThreadStep
<1>3. ASSUME NEW h \in Handlers, Submit(h) \/ HandlerStep(h) PROVE LifeStep
  <2>1. CASE Submit(h)
    <3>1. \E j \in Jobs : Create(j)
      BY <2>1 DEF Submit
    <3> QED
      BY <2>1, <3>1, LStatus DEF Submit, Create, runVars
  <2>2. CASE Enqueue(h) \/ InlineAudit(h) \/ HandlerError(h)
    <3>1. UNCHANGED <<status, rows, runs>>
      BY <2>2 DEF Enqueue, InlineAudit, HandlerError, tableVars, runVars
    <3> QED
      BY <3>1, LStutter
  <2> QED
    BY <1>3, <2>1, <2>2, LInline DEF HandlerStep
<1>4. CASE WebStart \/ WebCrash \/ UNCHANGED vars
  <2>1. UNCHANGED <<status, rows, runs>>
    BY <1>4 DEF WebStart, WebCrash, vars, tableVars, runVars
  <2> QED
    BY <2>1, LStutter
<1> QED
  BY <1>1, <1>2, <1>3, <1>4, LRecover DEF Next

\* The jobs table goes through the lifecycle of JobLifecycle: begun once, run
\* once, ended once, a success with no failure recorded, whoever executes the
\* jobs and however often its processes die (jobs/queue.py, jobs/service.py).
THEOREM Refinement ==
    ASSUME SingleExecutor, NoRecoveryRace
    PROVE  Spec => ImplementsLifecycle
<1>1. Init => Lifecycle!LInit
  <2> SUFFICES ASSUME Init PROVE Lifecycle!LInit
    OBVIOUS
  <2>1. begunNow = [j \in Jobs |-> FALSE] /\ failedNow = [j \in Jobs |-> FALSE]
    <3>1. \A j \in Jobs : (runs[j] > 0) = FALSE /\ ("failed" \in rows[j]) = FALSE
      BY DEF Init, TableInit
    <3> QED
      BY <3>1 DEF begunNow, failedNow
  <2> QED
    BY <2>1 DEF Init, TableInit, Lifecycle!LInit, begunNow, failedNow
<1>2. (TypeInv /\ ExclInv /\ LifeInv) /\ [Next]_vars => [Lifecycle!LNext]_(Lifecycle!lifeVars)
  BY LNextStep DEF LifeStep
<1> QED
  BY Life, <1>1, <1>2, PTL DEF Spec, ImplementsLifecycle, Lifecycle!LSpec

(***************************************************************************)
(* The evidence.  That a failed job has a failed row depends on no         *)
(* exclusion: it follows from the order in which each runner writes.       *)
(***************************************************************************)

InlinePC == {"inlineStart", "inlineWork", "inlineAudit"}

\* The row is there before the status, and only a handler fails without one.
FailureShown ==
    /\ \A r \in Runners :
          pc[r] = "failFinish" \/ (pc[r] = "work" /\ bad[r]) => "failed" \in rows[job[r]]
    /\ \A h \in Handlers :
          pc[h] \in InlinePC => kind[job[h]] = "inline" /\ status[job[h]] # "absent"
    /\ \A j \in Jobs :
          status[j] = "failed" /\ kind[j] # "inline" => "failed" \in rows[j]

\* Result rows are never deleted, jobs neither, and a job keeps its kind.
Kept ==
    \A j \in Jobs :
        /\ rows[j] \subseteq rows'[j]
        /\ status[j] # "absent" => status'[j] # "absent" /\ kind'[j] = kind[j]

\* A step of one runner that shows every failure it reports.
LEMMA ShownKeeps ==
    ASSUME TypeInv, FailureShown, Kept, NEW r \in Runners,
           \A q \in Runners \ {r} : pc'[q] = pc[q] /\ job'[q] = job[q] /\ bad'[q] = bad[q],
           pc'[r] = "failFinish" \/ (pc'[r] = "work" /\ bad'[r]) => "failed" \in rows'[job'[r]],
           r \in Handlers /\ pc'[r] \in InlinePC =>
               kind'[job'[r]] = "inline" /\ status'[job'[r]] # "absent",
           \A j \in Jobs :
               status'[j] = "failed" /\ status[j] # "failed" /\ kind'[j] # "inline" =>
                   "failed" \in rows'[j]
    PROVE  FailureShown'
<1>1. ASSUME NEW q \in Runners, pc'[q] = "failFinish" \/ (pc'[q] = "work" /\ bad'[q])
      PROVE  "failed" \in rows'[job'[q]]
  <2>1. CASE q = r
    BY <1>1, <2>1
  <2>2. CASE q # r
    <3>1. "failed" \in rows[job[q]] /\ job'[q] = job[q]
      BY <1>1, <2>2 DEF FailureShown
    <3>2. job[q] \in Jobs
      BY <1>1, <2>2, HolderType DEF HoldPC, Body
    <3> QED
      BY <3>1, <3>2 DEF Kept
  <2> QED
    BY <2>1, <2>2
<1>2. ASSUME NEW h \in Handlers, pc'[h] \in InlinePC
      PROVE  kind'[job'[h]] = "inline" /\ status'[job'[h]] # "absent"
  <2>1. CASE h = r
    BY <1>2, <2>1
  <2>2. CASE h # r
    <3>1. /\ kind[job[h]] = "inline" /\ status[job[h]] # "absent"
          /\ job'[h] = job[h] /\ pc[h] \in InlinePC /\ h \in Runners
      BY <1>2, <2>2 DEF FailureShown, Runners
    <3>2. job[h] \in Jobs
      BY <3>1, HolderType DEF HoldPC, InlinePC
    <3> QED
      BY <3>1, <3>2 DEF Kept
  <2> QED
    BY <2>1, <2>2
<1>3. ASSUME NEW j \in Jobs, status'[j] = "failed", kind'[j] # "inline"
      PROVE  "failed" \in rows'[j]
  BY <1>3 DEF FailureShown, Kept
<1> QED
  BY <1>1, <1>2, <1>3 DEF FailureShown

LEMMA ShownBody ==
    ASSUME TypeInv, FailureShown, NEW r \in Workers \cup Threads, BodyStep(r)
    PROVE  FailureShown'
<1>0. pc[r] \in Body /\ r \in Runners /\ job[r] \in Jobs
  <2>1. pc[r] \in Body
    BY DEF BodyStep, StartJob, Item, FinishJob, AuditJob, Raise, FailRow, FailFinish,
           Unhandled, Body
  <2> QED
    BY <2>1, HolderType DEF Runners, HoldPC
<1> PICK j \in Jobs : j = job[r]
  BY <1>0
<1>1. /\ j \in Jobs /\ j = job[r] /\ r \in Runners
      /\ pc \in [Runners -> WorkerPC \cup ThreadPC \cup HandlerPC]
      /\ job \in [Runners -> Jobs \cup {NoJob}]
      /\ bad \in [Runners -> BOOLEAN]
      /\ status \in [Jobs -> JobStatus] /\ rows \in [Jobs -> SUBSET ResultStatus]
  BY <1>0, HolderType DEF Runners, HoldPC
<1>2. r \notin Handlers
  BY ExecutionAssumption
<1>3. /\ kind' = kind
      /\ \A q \in Runners \ {r} : pc'[q] = pc[q] /\ job'[q] = job[q] /\ bad'[q] = bad[q]
  <2> USE <1>1 DEF Goto, Hold, runVars
  <2>1. CASE StartJob(r) \/ Item(r) \/ Raise(r) \/ FinishJob(r) \/ FailRow(r)
    BY <2>1 DEF StartJob, Item, Raise, FinishJob, FailRow
  <2>2. CASE AuditJob(r) \/ FailFinish(r) \/ Unhandled(r)
    BY <2>2 DEF AuditJob, FailFinish, Unhandled, Return, Escape
  <2> QED
    BY <2>1, <2>2 DEF BodyStep
<1>4. Kept
  <2> USE <1>1, <1>3 DEF Kept, runVars, tableVars
  <2>1. CASE StartJob(r) \/ Item(r) \/ Raise(r)
    BY <2>1 DEF StartJob, Start, Item, AddResult, Raise
  <2>2. CASE FinishJob(r) \/ FailRow(r) \/ FailFinish(r)
    BY <2>2 DEF FinishJob, Finish, FailRow, AddResult, FailFinish
  <2>3. CASE AuditJob(r) \/ Unhandled(r)
    BY <2>3 DEF AuditJob, Unhandled
  <2> QED
    BY <2>1, <2>2, <2>3 DEF BodyStep
<1>5. /\ pc'[r] = "failFinish" \/ (pc'[r] = "work" /\ bad'[r]) => "failed" \in rows'[job'[r]]
      /\ \A i \in Jobs : status'[i] = "failed" /\ status[i] # "failed" => "failed" \in rows'[i]
  <2> USE <1>1 DEF Goto, Hold, runVars, tableVars
  <2>1. CASE StartJob(r) \/ Raise(r)
    BY <2>1 DEF StartJob, Start, Raise
  <2>2. CASE Item(r)
    <3>1. PICK o \in ResultStatus :
             /\ rows' = [rows EXCEPT ![j] = @ \cup {o}] /\ UNCHANGED <<status, pc, job>>
             /\ bad' = [bad EXCEPT ![r] = @ \/ o = "failed"] /\ pc[r] = "work"
      BY <2>2 DEF Item, AddResult
    <3>2. bad'[r] => bad[r] \/ o = "failed"
      BY <3>1
    <3> QED
      BY <3>1, <3>2 DEF FailureShown
  <2>3. CASE FinishJob(r)
    <3>1. /\ pc[r] = "work" /\ rows' = rows /\ pc'[r] = "audit"
          /\ status' = [status EXCEPT ![j] = IF ~bad[r] THEN "success" ELSE "failed"]
      BY <2>3 DEF FinishJob, Finish
    <3> QED
      BY <3>1 DEF FailureShown
  <2>4. CASE FailRow(r)
    BY <2>4 DEF FailRow, AddResult
  <2>5. CASE FailFinish(r)
    <3>1. /\ pc[r] = "failFinish" /\ rows' = rows /\ pc'[r] \in {"doneBeat", "idle"}
          /\ status' = [status EXCEPT ![j] = "failed"]
      BY <2>5 DEF FailFinish, Finish, Return
    <3> QED
      BY <3>1 DEF FailureShown
  <2>6. CASE AuditJob(r) \/ Unhandled(r)
    BY <2>6 DEF AuditJob, Unhandled, Return, Escape
  <2> QED
    BY <2>1, <2>2, <2>3, <2>4, <2>5, <2>6 DEF BodyStep
<1> QED
  BY <1>1, <1>2, <1>3, <1>4, <1>5, ShownKeeps

LEMMA ShownWorker ==
    ASSUME TypeInv, FailureShown, NEW w \in Workers,
           Boot(w) \/ Poll(w) \/ ClaimWon(w) \/ ClaimLost(w) \/ ClaimNone(w) \/ Beat(w)
           \/ DoneBeat(w) \/ IdleBeat(w) \/ WorkerCrash(w)
    PROVE  FailureShown'
<1>1. /\ w \in Runners /\ w \notin Handlers
      /\ pc \in [Runners -> WorkerPC \cup ThreadPC \cup HandlerPC]
      /\ job \in [Runners -> Jobs \cup {NoJob}] /\ status \in [Jobs -> JobStatus]
  BY ExecutionAssumption DEF TypeInv, TypeOK, ProcessTypeOK, TableTypeOK, Runners
<1> USE DEF Boot, Poll, ClaimWon, ClaimRow, ClaimLost, LoseRow, ClaimNone, Beat, DoneBeat,
            IdleBeat, WorkerCrash, Goto, Hold, tableVars, runVars
<1>2. UNCHANGED <<rows, kind, bad>>
  OBVIOUS
<1>3. status' = status \/ \E j \in Jobs : status' = [status EXCEPT ![j] = "running"]
  BY DEF TypeInv, TypeOK, WorkerTypeOK
<1>4. \A q \in Runners \ {w} : pc'[q] = pc[q] /\ job'[q] = job[q]
  BY <1>1
<1>5. pc'[w] \notin {"failFinish", "work"}
  BY <1>1
<1>6. Kept
  BY <1>1, <1>2, <1>3 DEF Kept
<1>7. \A j \in Jobs : ~(status'[j] = "failed" /\ status[j] # "failed")
  BY <1>1, <1>3
<1> QED
  BY <1>1, <1>2, <1>4, <1>5, <1>6, <1>7, ShownKeeps

LEMMA ShownTake ==
    ASSUME TypeInv, FailureShown, NEW t \in Threads, Take(t)
    PROVE  FailureShown'
<1>1. /\ t \in Runners /\ t \notin Handlers
      /\ pc \in [Runners -> WorkerPC \cup ThreadPC \cup HandlerPC]
      /\ job \in [Runners -> Jobs \cup {NoJob}]
  BY ExecutionAssumption DEF TypeInv, TypeOK, ProcessTypeOK, Runners
<1>2. /\ UNCHANGED <<status, rows, kind, bad>> /\ pc'[t] = "start"
      /\ \A q \in Runners \ {t} : pc'[q] = pc[q] /\ job'[q] = job[q]
  BY <1>1 DEF Take, Goto, Hold, tableVars, runVars
<1>3. Kept
  BY <1>2 DEF Kept
<1> QED
  BY <1>1, <1>2, <1>3, ShownKeeps

LEMMA ShownHandler ==
    ASSUME TypeInv, FailureShown, NEW h \in Handlers, Submit(h) \/ HandlerStep(h)
    PROVE  FailureShown'
<1>1. /\ h \in Runners
      /\ pc \in [Runners -> WorkerPC \cup ThreadPC \cup HandlerPC]
      /\ job \in [Runners -> Jobs \cup {NoJob}]
      /\ status \in [Jobs -> JobStatus] /\ kind \in [Jobs -> Kinds \cup {"none"}]
  BY DEF TypeInv, TypeOK, ProcessTypeOK, TableTypeOK, Runners
<1>2. CASE Submit(h)
  <2>1. PICK j \in Jobs, k \in Kinds :
           /\ status[j] = "absent" /\ status' = [status EXCEPT ![j] = "pending"]
           /\ rows' = rows /\ job' = [job EXCEPT ![h] = j] /\ kind' = [kind EXCEPT ![j] = k]
           /\ pc' = [pc EXCEPT ![h] = IF k = "inline" THEN "inlineStart" ELSE "enqueue"]
    BY <1>2 DEF Submit, Create, Hold, Goto
  <2>2. bad' = bad
    BY <1>2 DEF Submit, runVars
  <2>3. Kept
    BY <1>1, <2>1 DEF Kept
  <2>4. pc'[h] \in InlinePC => kind'[job'[h]] = "inline" /\ status'[job'[h]] # "absent"
    BY <1>1, <2>1 DEF InlinePC
  <2>5. pc'[h] \notin {"failFinish", "work"}
    BY <1>1, <2>1
  <2>6. \A i \in Jobs : ~(status'[i] = "failed" /\ status[i] # "failed")
    BY <1>1, <2>1
  <2>7. \A q \in Runners \ {h} : pc'[q] = pc[q] /\ job'[q] = job[q]
    BY <1>1, <2>1
  <2> QED
    BY <1>1, <2>2, <2>3, <2>4, <2>5, <2>6, <2>7, ShownKeeps
<1>3. CASE InlineStart(h) \/ InlineFinish(h)
  <2>1. /\ pc[h] \in InlinePC /\ pc'[h] \in {"inlineWork", "inlineAudit"} /\ job' = job
        /\ \A q \in Runners \ {h} : pc'[q] = pc[q]
        /\ UNCHANGED <<rows, kind, bad>>
    BY <1>1, <1>3 DEF InlineStart, InlineFinish, Start, Finish, Goto, runVars, InlinePC
  <2>2. job[h] \in Jobs /\ kind[job[h]] = "inline" /\ status[job[h]] # "absent"
    BY <1>1, <2>1, HolderType DEF FailureShown, HoldPC, InlinePC
  <2>3. \E s \in {"running", "success", "failed"} : status' = [status EXCEPT ![job[h]] = s]
    BY <1>3 DEF InlineStart, InlineFinish, Start, Finish
  <2>4. Kept
    BY <1>1, <2>1, <2>3 DEF Kept
  <2>5. kind'[job'[h]] = "inline" /\ status'[job'[h]] # "absent"
    BY <1>1, <2>1, <2>2, <2>3
  <2>6. \A i \in Jobs : ~(status'[i] = "failed" /\ status[i] # "failed" /\ kind'[i] # "inline")
    BY <1>1, <2>1, <2>2, <2>3
  <2> QED
    BY <1>1, <2>1, <2>4, <2>5, <2>6, ShownKeeps
<1>4. CASE Enqueue(h) \/ InlineAudit(h) \/ HandlerError(h)
  <2>1. /\ UNCHANGED <<status, rows, kind, bad>> /\ pc'[h] = "idle"
        /\ \A q \in Runners \ {h} : pc'[q] = pc[q] /\ job'[q] = job[q]
    BY <1>1, <1>4 DEF Enqueue, InlineAudit, HandlerError, Goto, Hold, tableVars, runVars
  <2>2. Kept
    BY <2>1 DEF Kept
  <2> QED
    BY <1>1, <2>1, <2>2, ShownKeeps DEF InlinePC
<1> QED
  BY <1>2, <1>3, <1>4 DEF HandlerStep

LEMMA ShownWeb ==
    ASSUME TypeInv, FailureShown, WebStart \/ WebRecover \/ WebCrash \/ UNCHANGED vars
    PROVE  FailureShown'
<1>1. CASE WebStart \/ UNCHANGED vars
  BY <1>1 DEF WebStart, FailureShown, vars, tableVars, runVars
<1>2. CASE WebRecover
  <2>1. /\ status' = [j \in Jobs |-> IF j \in orphans THEN "failed" ELSE status[j]]
        /\ rows' = [j \in Jobs |-> IF j \in orphans THEN rows[j] \cup {"failed"} ELSE rows[j]]
        /\ UNCHANGED <<pc, job, bad, kind>>
    BY <1>2 DEF WebRecover, RecoverRows, runVars
  <2>2. \A r \in Runners : pc[r] \in HoldPC => job[r] \in Jobs
    BY HolderType
  <2>3. \A r \in Runners :
           pc'[r] = "failFinish" \/ (pc'[r] = "work" /\ bad'[r]) => "failed" \in rows'[job'[r]]
    BY <2>1, <2>2 DEF FailureShown, HoldPC, Body
  <2>4. \A h \in Handlers :
           pc'[h] \in InlinePC => kind'[job'[h]] = "inline" /\ status'[job'[h]] # "absent"
    BY <2>1, <2>2 DEF FailureShown, HoldPC, InlinePC, Runners
  <2>5. \A j \in Jobs : status'[j] = "failed" /\ kind'[j] # "inline" => "failed" \in rows'[j]
    BY <2>1 DEF FailureShown
  <2> QED
    BY <2>3, <2>4, <2>5 DEF FailureShown
<1>3. CASE WebCrash
  <2>1. /\ pc' = [r \in Runners |-> IF r \in Workers THEN pc[r] ELSE "idle"]
        /\ job' = [r \in Runners |-> IF r \in Workers THEN job[r] ELSE NoJob]
        /\ UNCHANGED <<status, rows, bad, kind>>
    BY <1>3 DEF WebCrash, tableVars, runVars
  <2> QED
    BY <2>1, ExecutionAssumption DEF FailureShown, InlinePC, Runners
<1> QED
  BY <1>1, <1>2, <1>3

\* Whatever fails a job that is not executed inline has recorded a failed row
\* for it before, in every deployment and through every crash.
THEOREM Shown == Spec => []FailureShown
<1>1. Init => FailureShown
  BY DEF Init, TableInit, FailureShown, InlinePC, Runners
<1>2. TypeInv /\ FailureShown /\ [Next]_vars => FailureShown'
  <2> SUFFICES ASSUME TypeInv, FailureShown, [Next]_vars PROVE FailureShown'
    OBVIOUS
  <2>1. ASSUME NEW w \in Workers, WorkerStep(w) \/ WorkerCrash(w) PROVE FailureShown'
    BY <2>1, ShownWorker, ShownBody DEF WorkerStep
  <2>2. ASSUME NEW t \in Threads, ThreadStep(t) PROVE FailureShown'
    BY <2>2, ShownTake, ShownBody DEF ThreadStep
  <2>3. ASSUME NEW h \in Handlers, Submit(h) \/ HandlerStep(h) PROVE FailureShown'
    BY <2>3, ShownHandler
  <2> QED
    BY <2>1, <2>2, <2>3, ShownWeb DEF Next
<1> QED
  BY Typing, <1>1, <1>2, PTL DEF Spec

\* The status shown for a job and its result rows agree: a failed job has a
\* failed row unless executed inline, a successful one none unless the
\* database failed on it.  The latter needs one executor; where the database
\* may fail it says nothing, so there the theorem is for every deployment.
THEOREM Evidence ==
    ASSUME DbMayFail \/ (SingleExecutor /\ NoRecoveryRace)
    PROVE  Spec => []EvidenceAgrees
<1>1. CASE DbMayFail
  <2>1. FailureShown => EvidenceAgrees
    BY <1>1 DEF FailureShown, EvidenceAgrees
  <2> QED
    BY <2>1, Shown, PTL
<1>2. CASE SingleExecutor /\ NoRecoveryRace
  <2>1. LifeInv /\ FailureShown => EvidenceAgrees
    BY DEF LifeInv, JobOK, FailureShown, EvidenceAgrees
  <2>2. Spec => [](TypeInv /\ ExclInv /\ LifeInv)
    BY <1>2, Life
  <2> QED
    BY <2>1, <2>2, Shown, PTL
<1> QED
  BY <1>1, <1>2

(***************************************************************************)
(* The local executor.  Without external workers, a running job is in the  *)
(* hands of a thread or a handler, and a recovery finds nobody at work.    *)
(***************************************************************************)

\* A step of one runner while the web process serves: whatever it leaves
\* running was running without it, or it is running it.
LEMMA RunKeeps ==
    ASSUME RunningIsRun, web = "up", web' = "up", NEW r \in Runners,
           \A q \in Runners \ {r} : pc'[q] = pc[q] /\ job'[q] = job[q],
           \A j \in Jobs : status'[j] = "running" =>
               Owns(r, j)' \/ (status[j] = "running" /\ ~Owns(r, j)),
           DbMayFail \in BOOLEAN
    PROVE  RunningIsRun'
<1> SUFFICES ASSUME ~DbMayFail, NEW j \in Jobs, status'[j] = "running"
             PROVE  \E q \in Runners : Owns(q, j)'
  BY DEF RunningIsRun
<1>1. CASE Owns(r, j)'
  BY <1>1
<1>2. CASE status[j] = "running" /\ ~Owns(r, j)
  <2>1. PICK q \in Runners : Owns(q, j)
    BY <1>2 DEF RunningIsRun
  <2> QED
    BY <1>2, <2>1 DEF Owns
<1> QED
  BY <1>1, <1>2

LEMMA RunThread ==
    ASSUME TypeInv, LifeInv, RunningIsRun, NEW t \in Threads, ThreadStep(t)
    PROVE  RunningIsRun'
<1>1. /\ t \in Runners /\ t \notin Workers
      /\ pc \in [Runners -> WorkerPC \cup ThreadPC \cup HandlerPC]
      /\ job \in [Runners -> Jobs \cup {NoJob}]
      /\ status \in [Jobs -> JobStatus]
  BY ExecutionAssumption DEF TypeInv, TypeOK, ProcessTypeOK, TableTypeOK, Runners
<1>2. web = "up" /\ web' = "up"
  BY DEF LifeInv, WebOK, ThreadStep, BodyStep, Take, StartJob, Item, FinishJob, AuditJob, Raise,
         FailRow, FailFinish, Unhandled, webVars
<1>3. CASE Take(t)
  <2>1. /\ pc[t] = "idle" /\ status' = status
        /\ \A q \in Runners \ {t} : pc'[q] = pc[q] /\ job'[q] = job[q]
    BY <1>1, <1>3 DEF Take, Goto, Hold, tableVars
  <2>2. \A j \in Jobs : ~Owns(t, j)
    BY <2>1 DEF Owns, OwnPC
  <2> QED
    BY <1>1, <1>2, <2>1, <2>2, RunKeeps, ExecutionAssumption
<1>4. CASE BodyStep(t)
  <2>1. pc[t] \in Body
    BY <1>4 DEF BodyStep, StartJob, Item, FinishJob, AuditJob, Raise, FailRow, FailFinish,
           Unhandled, Body
  <2>2. job[t] \in Jobs
    BY <1>1, <2>1, HolderType DEF HoldPC
  <2>3. PICK j \in Jobs : j = job[t]
    BY <2>2
  <2>4. /\ \A q \in Runners \ {t} : pc'[q] = pc[q] /\ job'[q] = job[q]
        /\ \A i \in Jobs \ {j} : status'[i] = status[i]
    <3> USE <1>1, <2>3 DEF Goto, Hold, tableVars
    <3>1. CASE StartJob(t) \/ Item(t) \/ Raise(t) \/ FinishJob(t) \/ FailRow(t)
      BY <3>1 DEF StartJob, Start, Item, AddResult, Raise, FinishJob, Finish, FailRow
    <3>2. CASE AuditJob(t) \/ FailFinish(t) \/ Unhandled(t)
      BY <3>2 DEF AuditJob, FailFinish, Finish, Unhandled, Return, Escape
    <3> QED
      BY <1>4, <3>1, <3>2 DEF BodyStep
  <2>5. \A i \in Jobs \ {j} : ~Owns(t, i)
    BY <2>3 DEF Owns
  <2>6. DbMayFail \/ status'[j] # "running" \/ Owns(t, j)'
    <3>1. CASE StartJob(t) \/ Item(t) \/ Raise(t) \/ FailRow(t)
      <4>1. job' = job /\ pc'[t] \in {"work", "failRow", "failFinish"}
        BY <1>1, <3>1 DEF StartJob, Item, Raise, FailRow, Goto
      <4> QED
        BY <2>3, <4>1 DEF Owns, OwnPC
    <3>2. CASE FinishJob(t) \/ FailFinish(t)
      BY <1>1, <2>3, <3>2 DEF FinishJob, FailFinish, Finish
    <3>3. CASE AuditJob(t)
      <4>1. pc[t] = "audit" /\ status' = status
        BY <3>3 DEF AuditJob, tableVars
      <4>2. InHand(t, j)
        BY <2>3, <4>1 DEF InHand, Reserved, OwnPC
      <4>3. status[j] \in Terminal
        BY <1>1, <4>1, <4>2 DEF LifeInv, RunnerOK
      <4> QED
        BY <4>1, <4>3 DEF Terminal
    <3>4. CASE Unhandled(t)
      BY <3>4 DEF Unhandled
    <3> QED
      BY <1>4, <3>1, <3>2, <3>3, <3>4 DEF BodyStep
  <2>7. CASE DbMayFail
    BY <2>7 DEF RunningIsRun
  <2>8. CASE ~DbMayFail
    BY <1>1, <1>2, <2>4, <2>5, <2>6, <2>8, RunKeeps, ExecutionAssumption
  <2> QED
    BY <2>7, <2>8
<1> QED
  BY <1>3, <1>4 DEF ThreadStep

LEMMA RunHandler ==
    ASSUME TypeInv, LifeInv, RunningIsRun, NEW h \in Handlers, Submit(h) \/ HandlerStep(h)
    PROVE  RunningIsRun'
<1>1. /\ h \in Runners /\ web = "up"
      /\ pc \in [Runners -> WorkerPC \cup ThreadPC \cup HandlerPC]
      /\ job \in [Runners -> Jobs \cup {NoJob}]
      /\ status \in [Jobs -> JobStatus]
  BY HandlerUp
<1>2. web' = "up"
  BY <1>1 DEF Submit, HandlerStep, Enqueue, InlineStart, InlineFinish, InlineAudit,
     HandlerError, webVars
<1>3. CASE Submit(h) \/ Enqueue(h)
  <2>1. /\ pc[h] \in {"idle", "enqueue"}
        /\ \A q \in Runners \ {h} : pc'[q] = pc[q] /\ job'[q] = job[q]
        /\ \A j \in Jobs : status'[j] = "running" => status[j] = "running"
    BY <1>1, <1>3 DEF Submit, Create, Enqueue, Goto, Hold, tableVars
  <2>2. \A j \in Jobs : ~Owns(h, j)
    BY <2>1 DEF Owns, OwnPC
  <2> QED
    BY <1>1, <1>2, <2>1, <2>2, RunKeeps, ExecutionAssumption
<1>4. CASE InlineStart(h) \/ InlineFinish(h) \/ InlineAudit(h)
  <2>1. pc[h] \in InlinePC /\ job[h] \in Jobs
    BY <1>1, <1>4, HolderType DEF InlineStart, InlineFinish, InlineAudit, InlinePC, HoldPC
  <2>2. PICK j \in Jobs : j = job[h]
    BY <2>1
  <2>3. /\ \A q \in Runners \ {h} : pc'[q] = pc[q] /\ job'[q] = job[q]
        /\ \A i \in Jobs \ {j} : status'[i] = status[i] /\ ~Owns(h, i)
    BY <1>1, <1>4, <2>2 DEF InlineStart, Start, InlineFinish, Finish, InlineAudit, Goto, Hold,
       tableVars, Owns
  <2>4. status'[j] # "running" \/ Owns(h, j)'
    <3>1. CASE InlineStart(h)
      BY <1>1, <2>2, <3>1 DEF InlineStart, Goto, Owns, OwnPC
    <3>2. CASE InlineFinish(h)
      BY <1>1, <2>2, <3>2 DEF InlineFinish, Finish
    <3>3. CASE InlineAudit(h)
      <4>1. pc[h] = "inlineAudit" /\ status' = status
        BY <3>3 DEF InlineAudit, tableVars
      <4>2. InHand(h, j)
        BY <2>2, <4>1 DEF InHand, Reserved, OwnPC
      <4>3. status[j] \in Terminal
        BY <1>1, <4>1, <4>2 DEF LifeInv, RunnerOK
      <4> QED
        BY <4>1, <4>3 DEF Terminal
    <3> QED
      BY <1>4, <3>1, <3>2, <3>3
  <2> QED
    BY <1>1, <1>2, <2>3, <2>4, RunKeeps, ExecutionAssumption
<1>5. CASE HandlerError(h)
  BY <1>5 DEF HandlerError, RunningIsRun
<1> QED
  BY <1>3, <1>4, <1>5 DEF HandlerStep

LEMMA RunWeb ==
    ASSUME TypeInv, LifeInv, RunningIsRun, WebStart \/ WebRecover \/ WebCrash \/ UNCHANGED vars
    PROVE  RunningIsRun'
<1>1. CASE WebStart \/ WebCrash
  BY <1>1 DEF WebStart, WebCrash, RunningIsRun
<1>2. CASE WebRecover
  <2>1. /\ status' = [j \in Jobs |-> IF j \in orphans THEN "failed" ELSE status[j]]
        /\ orphans = RunningRows
    BY <1>2 DEF WebRecover, RecoverRows, LifeInv, WebOK
  <2>2. \A j \in Jobs : status'[j] # "running"
    BY <2>1 DEF RunningRows
  <2> QED
    BY <2>2 DEF RunningIsRun
<1>3. CASE UNCHANGED vars
  BY <1>3 DEF vars, RunningIsRun, Owns, webVars
<1> QED
  BY <1>1, <1>2, <1>3

\* With the local executor only, a job shown as running while the web process
\* serves is being run, unless the database failed where nothing catches it
\* (jobs/queue.py: the executor's futures are never read).
THEOREM RunningRun ==
    ASSUME Workers = {}
    PROVE  Spec => []RunningIsRun
<1>1. SingleExecutor /\ NoRecoveryRace
  BY DEF SingleExecutor, NoRecoveryRace
<1>2. Spec => [](TypeInv /\ ExclInv /\ LifeInv)
  BY <1>1, Life
<1>3. Init => RunningIsRun
  BY DEF Init, RunningIsRun
<1>4. (TypeInv /\ ExclInv /\ LifeInv) /\ RunningIsRun /\ [Next]_vars => RunningIsRun'
  BY RunThread, RunHandler, RunWeb DEF Next
<1> QED
  BY <1>2, <1>3, <1>4, PTL DEF Spec

(***************************************************************************)
(* Whom the recovery at the start of the web process hits, in every        *)
(* deployment.                                                             *)
(***************************************************************************)

\* While the recovery has rows selected, whoever holds one of them is an external
\* worker that has held it all along: nothing of the web process is running, and
\* no worker takes one of them up to the commit.
HitsOnlySurvivors ==
    [][\A j \in orphans : \A r \in Runners :
          Owns(r, j)' => r \in Workers /\ Owns(r, j)]_vars

RecoveryInv ==
    /\ web # "up" => pool = <<>> /\ \A r \in Threads \cup Handlers : pc[r] = "idle"
    /\ web # "recovering" => orphans = {}
    /\ \A j \in orphans : j \in Jobs /\ status[j] \notin {"absent", "pending"}
    /\ \A w \in Workers : pc[w] = "claim" => job[w] = NoJob

\* What a worker's step changes of this.
LEMMA RecoveryWorker ==
    ASSUME TypeInv, RecoveryInv, NEW w \in Workers, WorkerStep(w) \/ WorkerCrash(w)
    PROVE  /\ UNCHANGED <<pool, web, orphans>>
           /\ \A r \in Runners \ {w} : pc'[r] = pc[r] /\ job'[r] = job[r]
           /\ \A j \in Jobs : status[j] \notin {"absent", "pending"} => status'[j] \notin {"absent", "pending"}
           /\ pc'[w] = "claim" => job'[w] = NoJob
           /\ \A j \in Jobs : Owns(w, j)' => Owns(w, j) \/ status[j] = "pending"
<1> USE DEF Goto, Hold, Owns, OwnPC, Runners, NoJob, webVars, runVars, tableVars,
            TypeInv, TypeOK, ProcessTypeOK, TableTypeOK, WorkerTypeOK, RecoveryInv
<1>1. CASE StartJob(w)
  BY <1>1 DEF StartJob, Start
<1>2. CASE Item(w)
  BY <1>2 DEF Item, AddResult
<1>3. CASE FinishJob(w)
  BY <1>3 DEF FinishJob, Finish
<1>4. CASE AuditJob(w)
  BY <1>4 DEF AuditJob, Return
<1>5. CASE Raise(w)
  BY <1>5 DEF Raise
<1>6. CASE FailRow(w)
  BY <1>6 DEF FailRow, AddResult
<1>7. CASE FailFinish(w)
  BY <1>7 DEF FailFinish, Finish, Return
<1>8. CASE Unhandled(w)
  BY <1>8 DEF Unhandled, Escape
<1>9. CASE Boot(w) \/ Poll(w) \/ WorkerCrash(w)
  BY <1>9 DEF Boot, Poll, WorkerCrash
<1>10. CASE ClaimWon(w)
  BY <1>10 DEF ClaimWon, ClaimRow
<1>11. CASE ClaimLost(w)
  BY <1>11 DEF ClaimLost, LoseRow
<1>12. CASE Beat(w) \/ DoneBeat(w) \/ IdleBeat(w)
  BY <1>12 DEF Beat, DoneBeat, IdleBeat
<1>13. CASE ClaimNone(w)
  BY <1>13, JobsAssumption DEF ClaimNone
<1> QED
  BY <1>1, <1>2, <1>3, <1>4, <1>5, <1>6, <1>7, <1>8, <1>9, <1>10, <1>11, <1>12, <1>13
     DEF WorkerStep, BodyStep

\* While the web process is not up, its threads and handlers do nothing.
LEMMA RecoveryIdle ==
    ASSUME RecoveryInv,
           \/ \E t \in Threads : ThreadStep(t)
           \/ \E h \in Handlers : Submit(h) \/ HandlerStep(h)
    PROVE  web = "up" /\ UNCHANGED <<web, orphans>>
<1>1. ASSUME NEW t \in Threads, ThreadStep(t) PROVE web = "up" /\ UNCHANGED <<web, orphans>>
  BY <1>1 DEF ThreadStep, Take, BodyStep, StartJob, Item, FinishJob, AuditJob, Raise, FailRow,
     FailFinish, Unhandled, webVars, RecoveryInv
<1>2. ASSUME NEW h \in Handlers, Submit(h) \/ HandlerStep(h) PROVE web = "up" /\ UNCHANGED <<web, orphans>>
  BY <1>2 DEF Submit, HandlerStep, Enqueue, InlineStart, InlineFinish, InlineAudit, HandlerError,
     webVars, RecoveryInv
<1> QED
  BY <1>1, <1>2

\* Nor do they touch the workers.
LEMMA RecoveryBeside ==
    ASSUME TypeInv,
           \/ \E t \in Threads : ThreadStep(t)
           \/ \E h \in Handlers : Submit(h) \/ HandlerStep(h)
    PROVE  \A w \in Workers : pc'[w] = pc[w] /\ job'[w] = job[w]
<1> USE DEF Goto, Hold, Runners, TypeInv, TypeOK, ProcessTypeOK
<1>1. ASSUME NEW t \in Threads, ThreadStep(t) PROVE \A w \in Workers : pc'[w] = pc[w] /\ job'[w] = job[w]
  BY <1>1, ExecutionAssumption DEF ThreadStep, Take, BodyStep, StartJob, Item, FinishJob, AuditJob,
     Raise, FailRow, FailFinish, Unhandled, Return, Escape
<1>2. ASSUME NEW h \in Handlers, Submit(h) \/ HandlerStep(h)
      PROVE  \A w \in Workers : pc'[w] = pc[w] /\ job'[w] = job[w]
  BY <1>2, ExecutionAssumption DEF Submit, HandlerStep, Enqueue, InlineStart, InlineFinish,
     InlineAudit, HandlerError
<1> QED
  BY <1>1, <1>2

LEMMA RecoveryStep == TypeInv /\ RecoveryInv /\ [Next]_vars => RecoveryInv'
<1> SUFFICES ASSUME TypeInv, RecoveryInv, [Next]_vars PROVE RecoveryInv'
  OBVIOUS
<1>0. Workers \cap (Threads \cup Handlers) = {} /\ Workers \cup Threads \cup Handlers = Runners
  BY ExecutionAssumption DEF Runners
<1>1. ASSUME NEW w \in Workers, WorkerStep(w) \/ WorkerCrash(w) PROVE RecoveryInv'
  BY <1>0, <1>1, RecoveryWorker DEF RecoveryInv
<1>2. ASSUME \/ \E t \in Threads : ThreadStep(t)
             \/ \E h \in Handlers : Submit(h) \/ HandlerStep(h)
      PROVE RecoveryInv'
  BY <1>2, RecoveryIdle, RecoveryBeside DEF RecoveryInv
<1>3. CASE WebStart
  BY <1>3 DEF WebStart, RunningRows, RecoveryInv, tableVars
<1>4. CASE WebRecover
  BY <1>4 DEF WebRecover, RecoveryInv
<1>5. CASE WebCrash
  <2>1. \A r \in Runners : pc'[r] = (IF r \in Workers THEN pc[r] ELSE "idle")
                           /\ job'[r] = (IF r \in Workers THEN job[r] ELSE NoJob)
    BY <1>5 DEF WebCrash
  <2> QED
    BY <1>0, <1>5, <2>1 DEF WebCrash, RecoveryInv
<1>6. CASE UNCHANGED vars
  BY <1>6 DEF vars, webVars, tableVars, RecoveryInv
<1> QED
  BY <1>1, <1>2, <1>3, <1>4, <1>5, <1>6 DEF Next

LEMMA RecoveryHits ==
    ASSUME TypeInv, RecoveryInv, [Next]_vars, NEW j \in orphans, NEW r \in Runners, Owns(r, j)'
    PROVE  r \in Workers /\ Owns(r, j)
<1>0. Workers \cap (Threads \cup Handlers) = {} /\ Workers \cup Threads \cup Handlers = Runners
  BY ExecutionAssumption DEF Runners
<1>1. web = "recovering" /\ j \in Jobs /\ status[j] \notin {"absent", "pending"}
      /\ \A q \in Threads \cup Handlers : pc[q] = "idle"
  BY DEF RecoveryInv
<1>2. ASSUME NEW w \in Workers, WorkerStep(w) \/ WorkerCrash(w) PROVE r \in Workers /\ Owns(r, j)
  BY <1>0, <1>1, <1>2, RecoveryWorker DEF Owns, OwnPC
<1>3. ASSUME \/ \E t \in Threads : ThreadStep(t)
             \/ \E h \in Handlers : Submit(h) \/ HandlerStep(h)
      PROVE FALSE
  BY <1>1, <1>3, RecoveryIdle
<1>4. CASE WebStart
  BY <1>1, <1>4 DEF WebStart
<1>5. CASE WebRecover \/ UNCHANGED vars
  BY <1>0, <1>1, <1>5 DEF WebRecover, vars, Owns, OwnPC
<1>6. CASE WebCrash
  <2>1. pc'[r] = (IF r \in Workers THEN pc[r] ELSE "idle") /\ job'[r] = (IF r \in Workers THEN job[r] ELSE NoJob)
    BY <1>6 DEF WebCrash
  <2> QED
    BY <1>0, <2>1 DEF Owns, OwnPC
<1> QED
  BY <1>2, <1>3, <1>4, <1>5, <1>6 DEF Next

\* In every deployment, what the recovery fails is either nobody's or the job of an
\* external worker that began before the recovery looked and is still at it; without
\* external workers it fails only orphans, as the reason it records says
\* (jobs/service.py:120-147, api/app.py:1485-1495).
THEOREM RecoveryTruthful ==
    Spec => HitsOnlySurvivors /\ (Workers = {} => RecoversOnlyOrphans)
<1>1. Init => RecoveryInv
  BY ExecutionAssumption DEF Init, RecoveryInv, Runners
<1>2. TypeInv /\ RecoveryInv /\ [Next]_vars =>
         [\A j \in orphans : \A r \in Runners : Owns(r, j)' => r \in Workers /\ Owns(r, j)]_vars
  BY RecoveryHits
<1>3. Spec => HitsOnlySurvivors
  BY Typing, RecoveryStep, <1>1, <1>2, PTL DEF Spec, HitsOnlySurvivors
<1>4. CASE Workers = {}
  <2>1. RecoveryInv => [web = "recovering" /\ web' = "up" =>
                          \A j \in orphans : ~ \E r \in Runners : Owns(r, j)]_vars
    BY <1>4 DEF RecoveryInv, Owns, OwnPC, Runners
  <2>2. Spec => RecoversOnlyOrphans
    BY Typing, RecoveryStep, <1>1, <2>1, PTL DEF Spec, RecoversOnlyOrphans
  <2> QED
    BY <1>3, <2>2
<1>5. CASE Workers # {}
  BY <1>3, <1>5
<1> QED
  BY <1>4, <1>5

(***************************************************************************)
(* The heartbeats.  A worker counts a job only once nobody will touch it   *)
(* again, so counting keeps pace with the jobs that are spent.             *)
(***************************************************************************)

\* Finitely many jobs have been created, and what a recovery selected exists.
Existing == {j \in Jobs : status[j] # "absent"}
FiniteInv == IsFiniteSet(Existing) /\ orphans \subseteq Existing

LEMMA ExistingStep ==
    ASSUME TypeInv, FiniteInv, [Next]_vars
    PROVE  /\ Existing' = Existing \/ \E j \in Jobs : Existing' = Existing \cup {j}
           /\ orphans' \in {orphans, {}, RunningRows}
<1>1. status \in [Jobs -> JobStatus]
  BY DEF TypeInv, TypeOK, TableTypeOK
<1> USE DEF Existing
<1>2. ASSUME NEW r \in Workers \cup Threads, BodyStep(r)
      PROVE  Existing' = Existing /\ orphans' = orphans
  BY <1>1, <1>2 DEF BodyStep, StartJob, Start, Item, AddResult, FinishJob, Finish, AuditJob, Raise,
     FailRow, FailFinish, Unhandled, tableVars, webVars
<1>3. ASSUME NEW w \in Workers, WorkerStep(w) \/ WorkerCrash(w)
      PROVE  Existing' = Existing /\ orphans' = orphans
  BY <1>1, <1>2, <1>3 DEF WorkerStep, Boot, Poll, ClaimWon, ClaimRow, ClaimLost, LoseRow, ClaimNone,
     Beat, DoneBeat, IdleBeat, WorkerCrash, tableVars, webVars
<1>4. ASSUME NEW t \in Threads, ThreadStep(t)
      PROVE  Existing' = Existing /\ orphans' = orphans
  BY <1>2, <1>4 DEF ThreadStep, Take, tableVars
<1>5. ASSUME NEW h \in Handlers, Submit(h)
      PROVE  orphans' = orphans /\ \E j \in Jobs : Existing' = Existing \cup {j}
  BY <1>1, <1>5 DEF Submit, Create, webVars
<1>6. ASSUME NEW h \in Handlers, HandlerStep(h)
      PROVE  Existing' = Existing /\ orphans' = orphans
  BY <1>1, <1>6 DEF HandlerStep, Enqueue, InlineStart, Start, InlineFinish, Finish, InlineAudit,
     HandlerError, tableVars, webVars
<1>7. CASE WebStart \/ WebCrash \/ UNCHANGED vars
  BY <1>7 DEF WebStart, WebCrash, vars, tableVars, webVars
<1>8. CASE WebRecover
  <2>1. status' = [j \in Jobs |-> IF j \in orphans THEN "failed" ELSE status[j]] /\ orphans' = {}
    BY <1>8 DEF WebRecover, RecoverRows
  <2> QED
    BY <2>1 DEF FiniteInv
<1> QED
  BY <1>3, <1>4, <1>5, <1>6, <1>7, <1>8 DEF Next

LEMMA Finiteness == Spec => []FiniteInv
<1>1. Init => FiniteInv
  <2> SUFFICES ASSUME Init PROVE FiniteInv
    OBVIOUS
  <2>1. Existing = {} /\ orphans = {}
    BY DEF Init, TableInit, Existing
  <2> QED
    BY <2>1, FS_EmptySet DEF FiniteInv
<1>2. TypeInv /\ FiniteInv /\ [Next]_vars => FiniteInv'
  <2> SUFFICES ASSUME TypeInv, FiniteInv, [Next]_vars PROVE FiniteInv'
    OBVIOUS
  <2>1. IsFiniteSet(Existing')
    BY ExistingStep, FS_AddElement DEF FiniteInv
  <2>2. RunningRows \subseteq Existing /\ Existing \subseteq Existing'
    BY ExistingStep DEF RunningRows, Existing
  <2> QED
    BY <2>1, <2>2, ExistingStep DEF FiniteInv
<1> QED
  BY Typing, <1>1, <1>2, PTL DEF Spec

\* External mode only: executor threads and inline requests have no job.
External == ~LocalMode /\ "inline" \notin Kinds

\* The worker has j and has not yet counted it.
Keeps(w, j) == job[w] = j /\ pc[w] \in OwnPC \cup {"doneBeat"}

Spent == {j \in Jobs : status[j] \in Terminal /\ \A w \in Workers : ~Keeps(w, j)}

KeptApart ==
    \A w1, w2 \in Workers : \A j \in Jobs : Keeps(w1, j) /\ Keeps(w2, j) => w1 = w2

BeatOK(w) ==
    /\ pc[w] \in {"audit", "doneBeat"} => status[job[w]] \in Terminal
    /\ pc[w] = "idleBeat" /\ job[w] # NoJob => job[w] \in Spent
    /\ hb[w].completed # NoJob => hb[w].completed \in Spent
    /\ hb[w].processed = processed[w]
    /\ pc[w] = "new" => processed[w] = 0

CountOK ==
    /\ IsFiniteSet(Counted)
    /\ Cardinality(Counted) <= Cardinality(Spent)

HeartInv == KeptApart /\ (\A w \in Workers : BeatOK(w)) /\ CountOK

\* The count keeps up if nothing counted anew and no spent job is lost.
LEMMA CountKeeps ==
    ASSUME CountOK, FiniteInv',
           \A w \in Workers : hb'[w].processed = hb[w].processed, Spent \subseteq Spent'
    PROVE  CountOK'
<1>1. Counted' = Counted
  BY DEF Counted
<1>2. Spent' \subseteq Existing'
  BY DEF Spent, Existing, Terminal
<1>3. IsFiniteSet(Spent)' /\ Cardinality(Spent) <= Cardinality(Spent')
  BY <1>2, FS_Subset DEF FiniteInv
<1>4. IsFiniteSet(Spent)
  BY <1>3, FS_Subset
<1>5. Cardinality(Counted) \in Nat /\ Cardinality(Spent) \in Nat /\ Cardinality(Spent') \in Nat
  BY <1>3, <1>4, FS_CardinalityType DEF CountOK
<1> QED
  BY <1>1, <1>3, <1>5 DEF CountOK

\* A step of w that counts nothing: it takes up pending jobs only, writes to
\* what it keeps, and reports as completed what is spent.
LEMMA HeartKeeps ==
    ASSUME TypeInv, ExclInv, FiniteInv', HeartInv, NEW w \in Workers,
           \A v \in Workers \ {w} : pc'[v] = pc[v] /\ job'[v] = job[v] /\ hb'[v] = hb[v]
                                   /\ processed'[v] = processed[v],
           \A j \in Jobs :
              /\ Keeps(w, j)' => Keeps(w, j) \/ status[j] = "pending"
              /\ status'[j] # status[j] => Keeps(w, j) \/ status[j] = "pending"
              /\ status'[j] = "absent" <=> status[j] = "absent",
           pc'[w] \in {"audit", "doneBeat"} => status'[job'[w]] \in Terminal,
           pc'[w] = "idleBeat" => job'[w] = NoJob, pc'[w] # "new",
           hb'[w].processed = processed[w], processed'[w] = processed[w],
           hb'[w].completed \in Spent \cup {hb[w].completed}
    PROVE  HeartInv'
<1>1. \A v \in Workers : \A j \in Jobs : Keeps(v, j) => status[j] # "pending"
  BY DEF Keeps, ExclInv, ClaimedNotPending, HeartInv, BeatOK, Terminal
<1>2. KeptApart'
  <2>1. ASSUME NEW v \in Workers \ {w}, NEW j \in Jobs, Keeps(v, j)', Keeps(w, j)' PROVE FALSE
    <3>1. Keeps(v, j)
      BY <2>1 DEF Keeps
    <3>2. Keeps(w, j)
      BY <1>1, <2>1, <3>1
    <3> QED
      BY <3>1, <3>2 DEF HeartInv, KeptApart
  <2>2. \A v1, v2 \in Workers \ {w} : \A j \in Jobs : Keeps(v1, j)' /\ Keeps(v2, j)' => v1 = v2
    BY DEF Keeps, HeartInv, KeptApart
  <2> QED
    BY <2>1, <2>2 DEF KeptApart
<1>3. Spent \subseteq Spent'
  <2>1. ASSUME NEW j \in Spent PROVE j \in Spent'
    <3>1. j \in Jobs /\ status[j] \in Terminal /\ \A v \in Workers : ~Keeps(v, j)
      BY <2>1 DEF Spent
    <3>2. status'[j] = status[j]
      BY <3>1 DEF Terminal
    <3>3. \A v \in Workers : ~Keeps(v, j)'
      BY <3>1 DEF Keeps, Terminal
    <3> QED
      BY <3>1, <3>2, <3>3 DEF Spent
  <2> QED
    BY <2>1
<1>4. \A v \in Workers : hb'[v].processed = hb[v].processed
  BY DEF HeartInv, BeatOK
<1>5. CountOK'
  BY <1>3, <1>4, CountKeeps DEF HeartInv
<1>6. BeatOK(w)'
  BY <1>3 DEF HeartInv, BeatOK
<1>7. ASSUME NEW v \in Workers \ {w} PROVE BeatOK(v)'
  <2>1. BeatOK(v)
    BY DEF HeartInv
  <2>2. pc[v] \in {"audit", "doneBeat"} => status'[job[v]] \in Terminal
    <3>1. ASSUME pc[v] \in {"audit", "doneBeat"}
          PROVE  job[v] \in Jobs /\ Keeps(v, job[v]) /\ status[job[v]] \in Terminal
      BY <2>1, <3>1, HolderType DEF BeatOK, Keeps, OwnPC, HoldPC, Body, Runners
    <3>2. ASSUME pc[v] \in {"audit", "doneBeat"} PROVE ~Keeps(w, job[v])
      BY <3>1, <3>2 DEF HeartInv, KeptApart
    <3> QED
      BY <3>1, <3>2 DEF Terminal
  <2> QED
    BY <1>3, <2>1, <2>2 DEF BeatOK
<1> QED
  BY <1>2, <1>5, <1>6, <1>7 DEF HeartInv

LEMMA HeartBody ==
    ASSUME TypeInv, ExclInv, FiniteInv', HeartInv, NEW w \in Workers, BodyStep(w)
    PROVE  HeartInv'
<1>0. pc[w] \in Body /\ w \in Runners /\ job[w] \in Jobs
  <2>1. pc[w] \in Body
    BY DEF BodyStep, StartJob, Item, FinishJob, AuditJob, Raise, FailRow, FailFinish,
           Unhandled, Body
  <2> QED
    BY <2>1, HolderType DEF Runners, HoldPC
<1> PICK j \in Jobs : j = job[w]
  BY <1>0
<1>1. /\ j \in Jobs /\ j = job[w] /\ w \in Runners
      /\ pc \in [Runners -> WorkerPC \cup ThreadPC \cup HandlerPC]
      /\ job \in [Runners -> Jobs \cup {NoJob}]
      /\ status \in [Jobs -> JobStatus]
  BY <1>0, HolderType DEF Runners, HoldPC
<1>2. Keeps(w, j) /\ BeatOK(w) /\ status[j] # "absent"
  BY <1>0 DEF Keeps, Body, OwnPC, HeartInv, ExclInv, HeldExists
<1>3. UNCHANGED <<hb, processed, job>>
  BY <1>1 DEF BodyStep, StartJob, Item, FinishJob, AuditJob, Raise, FailRow, FailFinish,
     Unhandled, Return, Escape, workerVars
<1>4. \A v \in Workers \ {w} : pc'[v] = pc[v]
  BY <1>1 DEF BodyStep, StartJob, Item, FinishJob, AuditJob, Raise, FailRow, FailFinish,
     Unhandled, Return, Escape, Goto, Runners
<1>5. status' = status
      \/ \E s \in {"running", "success", "failed"} : status' = [status EXCEPT ![j] = s]
  BY <1>1 DEF BodyStep, StartJob, Start, Item, AddResult, FinishJob, Finish, AuditJob, Raise,
     FailRow, FailFinish, Unhandled, tableVars
<1>6. \A i \in Jobs :
         /\ Keeps(w, i)' => Keeps(w, i)
         /\ status'[i] # status[i] => Keeps(w, i)
         /\ status'[i] = "absent" <=> status[i] = "absent"
  BY <1>0, <1>1, <1>2, <1>3, <1>5 DEF Keeps, Body, OwnPC
<1>7. /\ pc'[w] \in {"audit", "doneBeat"} => status'[j] \in Terminal
      /\ pc'[w] \notin {"idleBeat", "new"}
  <2>1. CASE StartJob(w) \/ Item(w) \/ Raise(w) \/ FailRow(w) \/ Unhandled(w)
    BY <1>1, <2>1 DEF StartJob, Item, Raise, FailRow, Unhandled, Escape, Goto
  <2>2. CASE FinishJob(w) \/ FailFinish(w)
    <3>1. status'[j] \in Terminal
      BY <1>1, <2>2 DEF FinishJob, FailFinish, Finish, Terminal
    <3> QED
      BY <1>1, <2>2, <3>1 DEF FinishJob, FailFinish, Return, Goto
  <2>3. CASE AuditJob(w)
    BY <1>1, <1>2, <2>3 DEF AuditJob, Return, Goto, BeatOK, tableVars
  <2> QED
    BY <2>1, <2>2, <2>3 DEF BodyStep
<1>8. hb'[w].processed = processed[w] /\ hb'[w].completed = hb[w].completed
  BY <1>2, <1>3 DEF BeatOK
<1> QED
  BY <1>1, <1>3, <1>4, <1>6, <1>7, <1>8, HeartKeeps

LEMMA HeartLoop ==
    ASSUME TypeInv, ExclInv, FiniteInv', HeartInv, NEW w \in Workers,
           Boot(w) \/ Poll(w) \/ ClaimWon(w) \/ ClaimLost(w) \/ ClaimNone(w) \/ Beat(w)
           \/ IdleBeat(w) \/ WorkerCrash(w)
    PROVE  HeartInv'
<1>1. /\ w \in Runners /\ Workers \subseteq Runners
      /\ pc \in [Runners -> WorkerPC \cup ThreadPC \cup HandlerPC]
      /\ job \in [Runners -> Jobs \cup {NoJob}]
      /\ status \in [Jobs -> JobStatus] /\ hb \in [Workers -> Heartbeat]
      /\ pc[w] \in WorkerPC
  BY DEF TypeInv, TypeOK, ProcessTypeOK, TableTypeOK, WorkerTypeOK, Runners
<1>2. BeatOK(w)
  BY DEF HeartInv
<1>3. processed' = processed
  BY DEF Boot, Poll, ClaimWon, ClaimLost, ClaimNone, Beat, IdleBeat, WorkerCrash, workerVars
<1>4. \A v \in Workers \ {w} : pc'[v] = pc[v] /\ job'[v] = job[v] /\ hb'[v] = hb[v]
  BY <1>1 DEF Boot, Poll, ClaimWon, ClaimLost, ClaimNone, Beat, IdleBeat, WorkerCrash,
     Goto, Hold, Touch, workerVars
<1>5. CASE ClaimWon(w)
  <2>1. PICK j \in Jobs : ClaimRow(j) /\ Hold(w, j)
    BY <1>5 DEF ClaimWon, TypeInv, TypeOK, WorkerTypeOK
  <2>2. /\ pc'[w] = "beat" /\ job'[w] = j /\ hb' = hb
        /\ status[j] = "pending" /\ status' = [status EXCEPT ![j] = "running"]
    BY <1>1, <1>5, <2>1 DEF ClaimWon, ClaimRow, Hold, Goto
  <2>3. \A i \in Jobs :
           /\ Keeps(w, i)' => Keeps(w, i) \/ status[i] = "pending"
           /\ status'[i] # status[i] => Keeps(w, i) \/ status[i] = "pending"
           /\ status'[i] = "absent" <=> status[i] = "absent"
    BY <1>1, <2>2 DEF Keeps
  <2> QED
    BY <1>2, <1>3, <1>4, <2>2, <2>3, HeartKeeps DEF BeatOK
<1>6. CASE ~ClaimWon(w)
  <2>1. status' = status
    BY <1>6 DEF Boot, Poll, ClaimLost, LoseRow, ClaimNone, Beat, IdleBeat, WorkerCrash, tableVars
  <2>2. \A i \in Jobs : Keeps(w, i)' => Keeps(w, i)
    <3>1. CASE ClaimNone(w)
      BY <1>1, <3>1, JobsAssumption DEF ClaimNone, Goto, ExclInv, ClaimedNotPending, Keeps, NoJob
    <3>2. CASE Beat(w)
      BY <1>1, <3>2 DEF Beat, Goto, Keeps, OwnPC
    <3>3. CASE Boot(w) \/ Poll(w) \/ ClaimLost(w) \/ IdleBeat(w) \/ WorkerCrash(w)
      BY <1>1, <3>3 DEF Boot, Poll, ClaimLost, IdleBeat, WorkerCrash, Goto, Keeps, OwnPC
    <3> QED
      BY <1>6, <3>1, <3>2, <3>3
  <2>3. /\ pc'[w] \notin {"audit", "doneBeat", "new"}
        /\ pc'[w] = "idleBeat" => job'[w] = NoJob
    BY <1>1, <1>6 DEF Boot, Poll, ClaimLost, ClaimNone, Beat, IdleBeat, WorkerCrash, Goto
  <2>4. hb'[w].processed = processed[w]
    BY <1>1, <1>2, <1>6 DEF Boot, Poll, ClaimLost, ClaimNone, Beat, IdleBeat, WorkerCrash,
       Touch, BeatOK, workerVars
  <2>5. hb'[w].completed \in Spent \cup {hb[w].completed}
    BY <1>1, <1>2, <1>6 DEF Boot, Poll, ClaimLost, ClaimNone, Beat, IdleBeat, WorkerCrash,
       Touch, BeatOK, workerVars
  <2> QED
    BY <1>3, <1>4, <2>1, <2>2, <2>3, <2>4, <2>5, HeartKeeps
<1> QED
  BY <1>5, <1>6

\* Counting a job: it becomes spent in the same step.
LEMMA HeartDone ==
    ASSUME TypeInv, ExclInv, FiniteInv', HeartInv, NEW w \in Workers, DoneBeat(w)
    PROVE  HeartInv'
<1>1. /\ w \in Runners /\ Workers \subseteq Runners
      /\ pc \in [Runners -> WorkerPC \cup ThreadPC \cup HandlerPC]
      /\ hb \in [Workers -> Heartbeat] /\ processed \in [Workers -> Nat]
  BY DEF TypeInv, TypeOK, ProcessTypeOK, WorkerTypeOK, Runners
<1>2. /\ pc[w] = "doneBeat" /\ pc'[w] \in {"idleBeat", "poll"}
      /\ processed' = [processed EXCEPT ![w] = @ + 1]
      /\ UNCHANGED <<status, job>>
      /\ \A v \in Workers \ {w} : pc'[v] = pc[v] /\ hb'[v] = hb[v]
  BY <1>1 DEF DoneBeat, Goto, Touch, tableVars
<1>3. job[w] \in Jobs /\ BeatOK(w)
  BY <1>1, <1>2, HolderType DEF HoldPC, HeartInv
<1> PICK j \in Jobs : j = job[w]
  BY <1>3
<1>4. Keeps(w, j) /\ status[j] \in Terminal /\ j # NoJob
  BY <1>2, <1>3, JobsAssumption DEF Keeps, BeatOK, NoJob
<1>5. hb'[w].processed = hb[w].processed + 1 /\ hb'[w].completed = j
  BY <1>1, <1>2, <1>3, <1>4 DEF DoneBeat, Touch, BeatOK
<1>6. \A v \in Workers : \A i \in Jobs : Keeps(v, i)' <=> v # w /\ Keeps(v, i)
  BY <1>1, <1>2 DEF Keeps, OwnPC
<1>7. KeptApart'
  BY <1>6 DEF KeptApart, HeartInv
<1>8. Spent \subseteq Spent' /\ j \in Spent' /\ j \notin Spent
  <2>1. \A v \in Workers : ~Keeps(v, j)'
    BY <1>4, <1>6 DEF HeartInv, KeptApart
  <2> QED
    BY <1>2, <1>4, <1>6, <2>1 DEF Spent
<1>9. \A v \in Workers : BeatOK(v)'
  <2>1. BeatOK(w)'
    BY <1>1, <1>2, <1>3, <1>5, <1>8 DEF BeatOK
  <2>2. ASSUME NEW v \in Workers \ {w} PROVE BeatOK(v)'
    <3>1. BeatOK(v)
      BY DEF HeartInv
    <3> QED
      BY <1>1, <1>2, <1>8, <3>1 DEF BeatOK
  <2> QED
    BY <2>1, <2>2
<1>10. CountOK'
  <2>2. IsFiniteSet(Spent') /\ IsFiniteSet(Spent)
    <3>1. Spent' \subseteq Existing'
      BY DEF Spent, Existing, Terminal
    <3>2. IsFiniteSet(Spent')
      BY <3>1, FS_Subset DEF FiniteInv
    <3> QED
      BY <1>8, <3>2, FS_Subset
  <2>3. Counted' = Counted \cup {<<w, hb[w].processed + 1>>}
    <3>1. \A v \in Workers \ {w} : hb'[v].processed = hb[v].processed
      BY <1>2
    <3>2. hb[w].processed \in Nat
      BY <1>1 DEF Heartbeat
    <3>3. 1..hb'[w].processed = (1..hb[w].processed) \cup {hb[w].processed + 1}
      BY <1>5, <3>2
    <3> QED
      BY <3>1, <3>3 DEF Counted
  <2>4. IsFiniteSet(Counted') /\ Cardinality(Counted') <= Cardinality(Counted) + 1
    <3>1. IsFiniteSet(Counted)
      BY DEF HeartInv, CountOK
    <3>2. Cardinality(Counted) \in Nat
      BY <3>1, FS_CardinalityType
    <3>3. /\ IsFiniteSet(Counted')
          /\ Cardinality(Counted') = Cardinality(Counted)
             \/ Cardinality(Counted') = Cardinality(Counted) + 1
      BY <2>3, <3>1, FS_AddElement
    <3> QED
      BY <3>2, <3>3
  <2>5. Cardinality(Spent) + 1 <= Cardinality(Spent')
    <3>1. IsFiniteSet(Spent \cup {j}) /\ Cardinality(Spent \cup {j}) = Cardinality(Spent) + 1
      BY <1>8, <2>2, FS_AddElement
    <3>2. Spent \cup {j} \subseteq Spent'
      BY <1>8
    <3> QED
      BY <2>2, <3>1, <3>2, FS_Subset
  <2>6. Cardinality(Counted) \in Nat /\ Cardinality(Counted') \in Nat
        /\ Cardinality(Spent) \in Nat /\ Cardinality(Spent') \in Nat
    BY <2>2, <2>4, FS_CardinalityType DEF HeartInv, CountOK
  <2> QED
    BY <2>4, <2>5, <2>6 DEF HeartInv, CountOK
<1> QED
  BY <1>7, <1>9, <1>10 DEF HeartInv

\* The rest of the system creates jobs and fails running ones, and leaves the
\* workers alone.
LEMMA HeartRest ==
    ASSUME External, TypeInv, ExclInv, FiniteInv', HeartInv,
           \/ \E t \in Threads : ThreadStep(t)
           \/ \E h \in Handlers : Submit(h) \/ HandlerStep(h)
           \/ WebStart \/ WebRecover \/ WebCrash \/ UNCHANGED vars
    PROVE  HeartInv'
<1>1. /\ Workers \subseteq Runners /\ Workers \cap (Threads \cup Handlers) = {}
      /\ pc \in [Runners -> WorkerPC \cup ThreadPC \cup HandlerPC]
      /\ job \in [Runners -> Jobs \cup {NoJob}] /\ status \in [Jobs -> JobStatus]
  BY ExecutionAssumption DEF TypeInv, TypeOK, ProcessTypeOK, TableTypeOK, Runners
<1>2. ~ \E t \in Threads : ThreadStep(t)
  <2>1. pool = <<>> /\ \A t \in Threads : pc[t] = "idle"
    BY DEF External, ExclInv, OneWay
  <2> QED
    BY <2>1 DEF ThreadStep, Take, BodyStep, StartJob, Item, FinishJob, AuditJob, Raise, FailRow,
       FailFinish, Unhandled
<1>3. \A h \in Handlers : ~(InlineStart(h) \/ InlineFinish(h) \/ InlineAudit(h) \/ HandlerError(h))
  BY DEF External, ExclInv, OneWay, InlineStart, InlineFinish, InlineAudit, HandlerError
<1>4. UNCHANGED <<hb, processed>>
        /\ \A v \in Workers : pc'[v] = pc[v] /\ job'[v] = job[v]
  <2>1. ASSUME NEW h \in Handlers, Submit(h) \/ Enqueue(h)
        PROVE  UNCHANGED <<hb, processed>>
                /\ \A v \in Workers : pc'[v] = pc[v] /\ job'[v] = job[v]
    BY <1>1, <2>1 DEF Submit, Enqueue, Goto, Hold, workerVars
  <2>2. CASE WebStart \/ WebRecover \/ WebCrash \/ UNCHANGED vars
    BY <1>1, <2>2 DEF WebStart, WebRecover, WebCrash, vars, workerVars
  <2> QED
    BY <1>2, <1>3, <2>1, <2>2 DEF HandlerStep
<1>5. \A j \in Jobs : status[j] \in Terminal => status'[j] \in Terminal
  <2>1. ASSUME NEW h \in Handlers, Submit(h) \/ Enqueue(h) PROVE \A j \in Jobs : status[j] \in Terminal => status'[j] \in Terminal
    BY <1>1, <2>1 DEF Submit, Create, Enqueue, tableVars, Terminal
  <2>2. CASE WebStart \/ WebCrash \/ UNCHANGED vars
    BY <2>2 DEF WebStart, WebCrash, vars, tableVars
  <2>3. CASE WebRecover
    BY <2>3 DEF WebRecover, RecoverRows, Terminal
  <2> QED
    BY <1>2, <1>3, <2>1, <2>2, <2>3 DEF HandlerStep
<1>7. \A v \in Workers : \A j \in Jobs : Keeps(v, j)' <=> Keeps(v, j)
  BY <1>4 DEF Keeps
<1>8. KeptApart' /\ Spent \subseteq Spent'
  BY <1>5, <1>7 DEF KeptApart, Spent, HeartInv
<1>9. ASSUME NEW v \in Workers PROVE BeatOK(v)'
  <2>1. BeatOK(v) /\ (pc[v] \in {"audit", "doneBeat"} => job[v] \in Jobs)
    BY <1>1, HolderType DEF HeartInv, HoldPC, Body
  <2> QED
    BY <1>4, <1>5, <1>8, <2>1 DEF BeatOK
<1>10. CountOK'
  BY <1>4, <1>8, CountKeeps DEF HeartInv
<1> QED
  BY <1>8, <1>9, <1>10 DEF HeartInv

LEMMA HeartInit == Init => HeartInv
<1> SUFFICES ASSUME Init PROVE HeartInv
  OBVIOUS
<1> USE DEF Init, TableInit
<1>1. KeptApart
  BY DEF KeptApart, Keeps, OwnPC, Runners
<1>2. \A w \in Workers : BeatOK(w)
  BY DEF BeatOK, Runners
<1>3. Counted = {} /\ Spent = {}
  BY DEF Counted, Spent, Terminal
<1>4. CountOK
  BY <1>3, FS_EmptySet DEF CountOK
<1> QED
  BY <1>1, <1>2, <1>4 DEF HeartInv

\* The heartbeats are truthful: no job is named as completed before it has
\* ended, nor counted twice, by however many workers, which may die anywhere,
\* and whatever a recovery of the web process fails meanwhile (worker.py).
THEOREM Heartbeats ==
    ASSUME SingleExecutor
    PROVE  Spec => []HeartbeatTruthful
<1> DEFINE Ended == {j \in Jobs : status[j] \in Terminal}
<1>1. FiniteInv => IsFiniteSet(Ended) /\ Cardinality(Ended) \in Nat
  <2>1. Ended \subseteq Existing
    BY DEF Existing, Terminal
  <2> QED
    BY <2>1, FS_Subset, FS_CardinalityType DEF FiniteInv
<1>2. CASE Workers = {}
  <2>1. FiniteInv => HeartbeatTruthful
    <3>1. Counted = {}
      BY <1>2 DEF Counted
    <3> QED
      BY <1>1, <1>2, <3>1, FS_EmptySet DEF HeartbeatTruthful
  <2> QED
    BY <2>1, Finiteness, PTL
<1>3. CASE External
  <2>1. TypeInv /\ ExclInv /\ FiniteInv' /\ HeartInv /\ [Next]_vars => HeartInv'
    BY <1>3, HeartBody, HeartLoop, HeartDone, HeartRest DEF Next, WorkerStep
  <2>2. FiniteInv /\ HeartInv => HeartbeatTruthful
    <3> SUFFICES ASSUME FiniteInv, HeartInv PROVE HeartbeatTruthful
      OBVIOUS
    <3>1. Spent \subseteq Ended
      BY DEF Spent
    <3>2. IsFiniteSet(Spent) /\ Cardinality(Spent) <= Cardinality(Ended)
      BY <1>1, <3>1, FS_Subset
    <3>3. Cardinality(Counted) \in Nat /\ Cardinality(Spent) \in Nat
      BY <3>2, FS_CardinalityType DEF HeartInv, CountOK
    <3>4. Cardinality(Counted) <= Cardinality(Ended)
      BY <1>1, <3>2, <3>3 DEF HeartInv, CountOK
    <3> QED
      BY <3>4 DEF HeartInv, BeatOK, Spent, HeartbeatTruthful
  <2> QED
    BY HeartInit, Typing, Exclusion, Finiteness, <2>1, <2>2, PTL DEF Spec
<1> QED
  BY <1>2, <1>3 DEF SingleExecutor, External
=============================================================================
