--------------------------- MODULE BatchJobProofs ---------------------------
(***************************************************************************)
(* Facts about the steps of BatchJob that every chunk loop built on it     *)
(* needs: they keep the job's state well typed, move a run only along the  *)
(* control points outside the loop, leave the progress columns alone, and  *)
(* complete the job only for a run that is past the end of its loop.  pcs  *)
(* stands for the control points of the loop, whatever they are.           *)
(***************************************************************************)
EXTENDS BatchJob, TLAPS

LEMMA Constants ==
    /\ 0 \in Attempts /\ Attempts \subseteq Int /\ InProc \notin Attempts
    /\ NChunks \in Nat /\ NChunks > 0 /\ MaxFaults \in Nat
    /\ NoProgress \in Progress /\ NewRow \in Row /\ NoReq \in Request
BY BatchAssumption DEF Attempts, NoProgress, Progress, NewRow, Row, Status, NoReq, Request

LEMMA NoRunType ==
    ASSUME NEW pcs
    PROVE  NoRun \in RunStateOver(pcs)
BY Constants DEF NoRun, RunAt, RunStateOver

LEMMA InitJobType ==
    ASSUME NEW pcs, JobInit
    PROVE  JobTypeOver(pcs)
<1>1. req \in [Users -> Request]
  BY Constants DEF JobInit, Request
<1>2. job \in Row /\ sched \in BOOLEAN
  BY Constants DEF JobInit
<1>3. arq \in [Attempts -> {"none", "queued", "done"}]
  BY DEF JobInit
<1>4. up \in [Procs -> {"up", "down", "recover", "recovering"}]
  BY DEF JobInit
<1>5. run \in [Runs -> RunStateOver(pcs)]
  BY NoRunType DEF JobInit
<1>6. faults \in 0..MaxFaults
  BY Constants DEF JobInit
<1> QED
  BY <1>1, <1>2, <1>3, <1>4, <1>5, <1>6 DEF JobTypeOver

-----------------------------------------------------------------------------
(* Type correctness.                                                       *)

\* Moving a run to another control point, or ending it, keeps its type.
LEMMA GotoType ==
    ASSUME NEW pcs, JobTypeOver(pcs), NEW r \in Runs, NEW pc, Goto(r, pc),
           pc \in {"wait", "loop", "complete", "completing", "fail", "failing"} \cup pcs
    PROVE  run' \in [Runs -> RunStateOver(pcs)]
BY DEF JobTypeOver, Goto, RunStateOver

LEMMA ReturnType ==
    ASSUME NEW pcs, JobTypeOver(pcs), NEW r \in Runs, Return(r)
    PROVE  /\ run' \in [Runs -> RunStateOver(pcs)]
           /\ arq' \in [Attempts -> {"none", "queued", "done"}]
BY NoRunType DEF JobTypeOver, Return, Returned

LEMMA StatusType ==
    ASSUME job \in Row, NEW s \in Status, job' = [job EXCEPT !.status = s]
    PROVE  job' \in Row
BY DEF Row

LEMMA ResumeType ==
    ASSUME job \in Row
    PROVE  ResumeAt(job) \in 1..NChunks + 1
BY Constants DEF Row, Progress, ResumeAt

LEMMA FaultType ==
    ASSUME faults \in 0..MaxFaults, Fault
    PROVE  faults' \in 0..MaxFaults
BY Constants DEF Fault

LEMMA ApiType ==
    ASSUME NEW pcs, JobTypeOver(pcs), NEW u \in Users,
           CancelRead(u) \/ RetryRead(u) \/ ApiWrite(u) \/ DispatchInProcess(u)
    PROVE  JobTypeOver(pcs)'
<1>1. CASE CancelRead(u)
  BY <1>1 DEF JobTypeOver, CancelRead, Request
<1>2. CASE RetryRead(u)
  <2>1. job.retries \in Attempts
    BY DEF JobTypeOver, Row
  <2>2. job.retries + 1 \in Attempts
    BY <1>2, <2>1, Constants, BatchAssumption DEF RetryRead, Attempts
  <2>3. req' \in [Users -> Request]
    BY <1>2, <2>2 DEF JobTypeOver, RetryRead, Request
  <2> QED
    BY <1>2, <2>3 DEF JobTypeOver, RetryRead
<1>3. CASE CancelWrite(u)
  <2>1. job' \in Row
    BY <1>3, StatusType DEF JobTypeOver, CancelWrite, Status
  <2> QED
    BY <1>3, <2>1 DEF JobTypeOver, CancelWrite, Request
<1>4. CASE Unschedule(u)
  BY <1>4, Constants DEF JobTypeOver, Unschedule
<1>5. CASE RetryWrite(u)
  <2>1. job' \in Row
    BY <1>5 DEF JobTypeOver, RetryWrite, Row, Status, Request
  <2> QED
    BY <1>5, <2>1 DEF JobTypeOver, RetryWrite, Request
<1>6. CASE Dispatch(u)
  BY <1>6, Constants DEF JobTypeOver, Dispatch, Request, TaskId
<1>7. CASE DispatchInProcess(u)
  BY <1>7, Constants DEF JobTypeOver, DispatchInProcess, Request, TaskId
<1> QED
  BY <1>1, <1>2, <1>3, <1>4, <1>5, <1>6, <1>7 DEF ApiWrite

LEMMA DeliveryType ==
    ASSUME NEW pcs, JobTypeOver(pcs),
           (\E a \in Attempts : Deliver(a)) \/ FireInProcess \/ SkipInProcess
    PROVE  JobTypeOver(pcs)'
<1>1. ASSUME NEW a \in Attempts, Deliver(a) PROVE JobTypeOver(pcs)'
  <2>1. run' \in [Runs -> RunStateOver(pcs)]
    BY <1>1, GotoType DEF Deliver, Runs
  <2> QED
    BY <1>1, <2>1 DEF JobTypeOver, Deliver
<1>2. CASE FireInProcess
  <2>1. run' \in [Runs -> RunStateOver(pcs)]
    BY <1>2, GotoType DEF FireInProcess, Runs
  <2> QED
    BY <1>2, <2>1 DEF JobTypeOver, FireInProcess
<1>3. CASE SkipInProcess
  BY <1>3 DEF JobTypeOver, SkipInProcess
<1> QED
  BY <1>1, <1>2, <1>3

LEMMA JobStepType ==
    ASSUME NEW pcs, JobTypeOver(pcs), NEW r \in Runs, JobStep(r)
    PROVE  JobTypeOver(pcs)'
<1>0. job \in Row
  BY DEF JobTypeOver
<1>1. CASE StartRead(r)
  <2>1. CASE Return(r)
    BY <1>1, <2>1, ReturnType DEF JobTypeOver, StartRead
  <2>2. CASE ~Return(r)
    <3>1. run' \in [Runs -> RunStateOver(pcs)]
      BY <1>0, <1>1, <2>2, ResumeType, Constants DEF JobTypeOver, StartRead, RunStateOver
    <3> QED
      BY <1>1, <2>2, <3>1 DEF JobTypeOver, StartRead
  <2> QED
    BY <2>1, <2>2
<1>2. CASE StartWrite(r)
  BY <1>0, <1>2, GotoType, StatusType DEF JobTypeOver, StartWrite, Status
<1>3. CASE CompleteRead(r)
  BY <1>3, GotoType, ReturnType DEF JobTypeOver, CompleteRead
<1>4. CASE CompleteWrite(r)
  BY <1>0, <1>4, ReturnType, StatusType DEF JobTypeOver, CompleteWrite, Status
<1>5. CASE FailRead(r)
  BY <1>5, GotoType, ReturnType DEF JobTypeOver, FailRead
<1>6. CASE FailWrite(r)
  BY <1>0, <1>6, ReturnType, StatusType DEF JobTypeOver, FailWrite, Status
<1> QED
  BY <1>1, <1>2, <1>3, <1>4, <1>5, <1>6 DEF JobStep

LEMMA FaultStepType ==
    ASSUME NEW pcs, JobTypeOver(pcs),
           \/ \E r \in Runs : Abort(r) \/ Stall(r)
           \/ \E p \in Procs : Crash(p) \/ Restart(p)
           \/ RecoverRead \/ RecoverWrite \/ RecoverFails
    PROVE  JobTypeOver(pcs)'
<1>1. ASSUME NEW r \in Runs, Abort(r) PROVE JobTypeOver(pcs)'
  BY <1>1, GotoType, FaultType DEF JobTypeOver, Abort
<1>2. ASSUME NEW r \in Runs, Stall(r) PROVE JobTypeOver(pcs)'
  BY <1>2, ReturnType, FaultType DEF JobTypeOver, Stall
<1>3. ASSUME NEW p \in Procs, Crash(p) PROVE JobTypeOver(pcs)'
  <2>1. run' \in [Runs -> RunStateOver(pcs)]
    BY <1>3, NoRunType DEF JobTypeOver, Crash
  <2>2. req' \in [Users -> Request]
    BY <1>3, Constants DEF JobTypeOver, Crash
  <2>3. sched' \in BOOLEAN /\ up' \in [Procs -> {"up", "down", "recover", "recovering"}]
    BY <1>3 DEF JobTypeOver, Crash
  <2>4. faults' \in 0..MaxFaults
    BY <1>3, FaultType DEF JobTypeOver, Crash
  <2> QED
    BY <1>3, <2>1, <2>2, <2>3, <2>4 DEF JobTypeOver, Crash
<1>4. ASSUME NEW p \in Procs, Restart(p) PROVE JobTypeOver(pcs)'
  BY <1>4 DEF JobTypeOver, Restart
<1>5. CASE RecoverRead
  BY <1>5 DEF JobTypeOver, RecoverRead
<1>6. CASE RecoverWrite
  <2>1. job' \in Row
    BY <1>6, StatusType DEF JobTypeOver, RecoverWrite, Status
  <2> QED
    BY <1>6, <2>1 DEF JobTypeOver, RecoverWrite
<1>7. CASE RecoverFails
  BY <1>7, FaultType DEF JobTypeOver, RecoverFails
<1> QED
  BY <1>1, <1>2, <1>3, <1>4, <1>5, <1>6, <1>7

LEMMA JobType ==
    ASSUME NEW pcs, JobTypeOver(pcs), JobNext
    PROVE  JobTypeOver(pcs)'
BY ApiType, DeliveryType, JobStepType, FaultStepType DEF JobNext

LEMMA JobIdleType ==
    ASSUME NEW pcs, JobTypeOver(pcs), UNCHANGED jobVars
    PROVE  JobTypeOver(pcs)'
BY DEF JobTypeOver, jobVars

LEMMA ApplyType ==
    ASSUME NEW row \in Progress, NEW seen \in Progress, NEW c \in Chunks, NEW ok \in BOOLEAN
    PROVE  ApplyProgress(row, seen, c, ok) \in Progress
BY Constants DEF ApplyProgress, Progress, Chunks

-----------------------------------------------------------------------------
(* What a step outside the loop does to a run, and to the row.             *)

\* It leaves the run alone or takes it out of reach of the loop, delivers it,
\* lets it resume after the checkpoint, or moves it on with what it knows.
Moved(q) ==
    \/ run'[q] = run[q]
    \/ run'[q].pc \in {"idle", "fail", "failing"}
    \/ run[q].pc = "idle" /\ run'[q].pc = "wait"
    \/ run[q].pc = "wait" /\ run'[q].pc \in {"start", "loop"} /\ run'[q].next = ResumeAt(job)
    \/ run[q].pc = "start" /\ run'[q].pc = "loop" /\ run'[q].next = run[q].next
    \/ run[q].pc = "complete" /\ run'[q].pc = "completing"

LEMMA JobRuns ==
    ASSUME NEW pcs, JobTypeOver(pcs), JobNext, NEW q \in Runs
    PROVE  Moved(q)
<1>0. run \in [Runs -> RunStateOver(pcs)]
  BY DEF JobTypeOver
<1>1. ASSUME NEW r \in Runs, Return(r) PROVE Moved(q)
  BY <1>0, <1>1 DEF Return, NoRun, RunAt, Moved
<1>2. ASSUME NEW r \in Runs, NEW pc, Goto(r, pc),
             pc \in {"fail", "failing"} \/ (pc = "wait" /\ run[r].pc = "idle")
      PROVE  Moved(q)
  BY <1>0, <1>2 DEF Goto, RunStateOver, Moved
<1>3. ASSUME UNCHANGED run PROVE Moved(q)
  BY <1>3 DEF Moved
<1>4. ASSUME NEW r \in Runs, StartRead(r), ~Return(r) PROVE Moved(q)
  BY <1>0, <1>4 DEF StartRead, RunStateOver, Moved
<1>5. ASSUME NEW r \in Runs, StartWrite(r) \/ CompleteRead(r), ~Return(r) PROVE Moved(q)
  BY <1>0, <1>5 DEF StartWrite, CompleteRead, Goto, RunStateOver, Moved
<1>6. ASSUME NEW p \in Procs, Crash(p) PROVE Moved(q)
  BY <1>6 DEF Crash, NoRun, RunAt, Moved
<1>7. ASSUME NEW u \in Users,
             CancelRead(u) \/ RetryRead(u) \/ ApiWrite(u) \/ DispatchInProcess(u)
      PROVE  Moved(q)
  BY <1>3, <1>7 DEF CancelRead, RetryRead, ApiWrite, CancelWrite, Unschedule, RetryWrite,
     Dispatch, DispatchInProcess
<1>8. ASSUME NEW r \in Runs, JobStep(r) PROVE Moved(q)
  BY <1>1, <1>2, <1>4, <1>5, <1>8
     DEF JobStep, CompleteRead, CompleteWrite, FailRead, FailWrite
<1>9. ASSUME NEW r \in Runs, Abort(r) \/ Stall(r) PROVE Moved(q)
  BY <1>1, <1>2, <1>9 DEF Abort, Stall
<1>10. CASE (\E a \in Attempts : Deliver(a)) \/ FireInProcess \/ SkipInProcess
  BY <1>2, <1>3, <1>10 DEF Deliver, FireInProcess, SkipInProcess, Runs
<1>11. CASE (\E p \in Procs : Restart(p)) \/ RecoverRead \/ RecoverWrite \/ RecoverFails
  BY <1>3, <1>11 DEF Restart, RecoverRead, RecoverWrite, RecoverFails
<1> QED
  BY <1>6, <1>7, <1>8, <1>9, <1>10, <1>11 DEF JobNext

LEMMA JobKeepsProgress ==
    ASSUME job \in Row, JobNext
    PROVE  job'.progress = job.progress
BY DEF JobNext, Row, CancelRead, RetryRead, ApiWrite, CancelWrite, Unschedule, RetryWrite,
   Dispatch, DispatchInProcess, Deliver, FireInProcess, SkipInProcess, JobStep, StartRead,
   StartWrite, CompleteRead, CompleteWrite, FailRead, FailWrite, Abort, Stall, Crash, Restart,
   RecoverRead, RecoverWrite, RecoverFails

LEMMA JobCompletes ==
    ASSUME job \in Row, JobNext, job'.status = "completed"
    PROVE  job.status = "completed" \/ \E r \in Runs : run[r].pc = "completing"
<1>1. CASE \E r \in Runs : CompleteWrite(r)
  BY <1>1 DEF CompleteWrite
<1>2. CASE ~\E r \in Runs : CompleteWrite(r)
  BY <1>2 DEF JobNext, Row, CancelRead, RetryRead, ApiWrite, CancelWrite, Unschedule,
     RetryWrite, Dispatch, DispatchInProcess, Deliver, FireInProcess, SkipInProcess, JobStep,
     StartRead, StartWrite, CompleteRead, FailRead, FailWrite, Abort, Stall, Crash, Restart,
     RecoverRead, RecoverWrite, RecoverFails
<1> QED
  BY <1>1, <1>2
=============================================================================
