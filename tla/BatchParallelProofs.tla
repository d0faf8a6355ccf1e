------------------------ MODULE BatchParallelProofs ------------------------
(***************************************************************************)
(* Theorems about the parallel chunk loop, for any file, concurrency,      *)
(* number of attempts and requests, and any number of faults.  Those about *)
(* the first attempt suppose that recovery, when a crashed worker is back, *)
(* gets the rows it finds in processing marked failed (~ RecoveryMayFail). *)
(***************************************************************************)
EXTENDS BatchParallel, BatchJobProofs, FiniteSetTheorems

Task == [pc : {"none", "queued", "collected"} \cup Working \cup Finished,
         pipe : 0..ChunkConcurrency - 1, ok : BOOLEAN, seen : Progress]

\* What a run keeps of its tasks: a run that has not begun has none (arq does
\* not run a finished task again, and a crash ends them all), one past its
\* loop has collected them, and one about to create a task has room for it.
RunOK(r) ==
    /\ run[r].pc # "idle" => arq[r] = "queued" /\ up["worker"] = "up"
    /\ run[r].pc = "idle" /\ arq[r] # "done" => InFlight(r) = {}
    /\ run[r].pc \in {"wait", "start", "aftercheck", "complete", "completing"}
         => InFlight(r) = {}
    /\ Cardinality(InFlight(r)) <= 2 * ChunkConcurrency
    /\ run[r].pc = "loop" => Cardinality(InFlight(r)) < 2 * ChunkConcurrency

RunInv == \A r \in Attempts : RunOK(r)

RetryInv == \A u \in Users : req[u].pc = "retry" => req[u].attempt # 0

\* The first attempt, until a retry is committed.
Untouched == \A c \in Chunks : ~ Accounted(c) /\ task[0][c].pc = "none"
Covered == \A c \in Chunks : Accounted(c)
Pending(c) == task[0][c].pc \in {"queued", "failed"} \cup Working

Alone ==
    /\ \A r \in Attempts \ {0} :
         arq[r] = "none" /\ run[r].pc = "idle" /\ \A c \in Chunks : task[r][c].pc = "none"
    /\ \A u \in Users : req[u].pc = "dispatch" => req[u].attempt = 0

\* What the row's status says of the run, its tasks and the stored reviews.
StatusInv ==
    /\ job.status = "queued" =>
         /\ job.progress.ckpt = 0 /\ Untouched
         /\ run[0].pc \in {"idle", "wait", "start", "fail", "failing"}
    /\ job.status = "processing" =>
         \/ run[0].pc \notin {"idle", "wait", "start"}
         \/ arq[0] = "done" \/ up["worker"] # "up"
    /\ job.status = "completed" =>
         Covered /\ run[0].pc = "idle" /\ arq[0] = "done" /\ InFlight(0) = {}

\* What the run's control point says of them.
LoopInv ==
    /\ run[0].pc = "start" => Untouched /\ run[0].next = 1
    /\ run[0].pc \in {"loop", "drain"} =>
         \A c \in Chunks : c >= run[0].next => ~ Accounted(c) /\ task[0][c].pc = "none"
    /\ run[0].pc \in {"loop", "drain", "gather"} =>
         \/ job.status = "cancelled"
         \/ \A c \in Chunks : c < run[0].next => Pending(c) \/ Accounted(c)
    /\ run[0].pc = "gather" => run[0].next > NChunks
    /\ run[0].pc = "aftercheck" => job.status = "cancelled" \/ Covered
    /\ run[0].pc \in {"complete", "completing"} => Covered

\* What a task's control point says of its chunk's reviews.
TaskInv ==
    \A c \in Chunks :
        /\ reviews[c] <= 1
        /\ task[0][c].pc \in {"queued", "infer"} => ~ Accounted(c)
        /\ task[0][c].pc \in {"progress", "commit"} =>
             c \notin errored /\ (task[0][c].ok => reviews[c] > 0)

First == ~ RecoveryMayFail /\ job.retries = 0 => Alone /\ StatusInv /\ LoopInv /\ TaskInv

IInv == TypeOK /\ RunInv /\ RetryInv /\ First
-----------------------------------------------------------------------------
LEMMA Consts ==
    /\ 0 \in Attempts /\ 0 \in Runs /\ Attempts \subseteq Runs /\ Chunks \subseteq Int
    /\ ChunkConcurrency \in Nat /\ ChunkConcurrency > 1
    /\ NChunks \in Nat /\ NoProgress \in Progress
    /\ IsFiniteSet(Chunks)
BY Constants, ParallelAssumption, FS_Interval DEF Runs, Chunks

LEMMA NoTaskTyped == NoTask \in Task /\ NoTask.pc = "none" /\ NoTask.ok = TRUE
BY Consts DEF NoTask, Task, Working, Finished

LEMMA NoTasksTyped == NoTasks \in [Chunks -> Task] /\ \A c \in Chunks : NoTasks[c].pc = "none"
BY NoTaskTyped DEF NoTasks

LEMMA Typing ==
    TypeOK <=> /\ JobTypeOver(LoopPcs) /\ ~ sched
               /\ task \in [Attempts -> [Chunks -> Task]]
               /\ reviews \in [Chunks -> Nat]
               /\ errored \subseteq Chunks
BY DEF TypeOK, Task

LEMMA TypingNext ==
    TypeOK' <=> /\ JobTypeOver(LoopPcs)' /\ ~ sched'
                /\ task' \in [Attempts -> [Chunks -> Task]]
                /\ reviews' \in [Chunks -> Nat]
                /\ errored' \subseteq Chunks
BY DEF TypeOK, Task

\* The tasks in flight are chunks, so they are finitely many.
LEMMA InFlightFinite ==
    ASSUME NEW r
    PROVE  /\ InFlight(r) \subseteq Chunks /\ IsFiniteSet(InFlight(r))
           /\ Cardinality(InFlight(r)) \in Nat
BY Consts, FS_Subset, FS_CardinalityType DEF InFlight

LEMMA InitInv == Init => IInv
<1> SUFFICES ASSUME Init PROVE IInv
  OBVIOUS
<1>1. TypeOK
  <2>1. JobTypeOver(LoopPcs)
    BY InitJobType DEF Init
  <2>2. task \in [Attempts -> [Chunks -> Task]]
    BY NoTasksTyped DEF Init
  <2>3. ~ sched /\ reviews \in [Chunks -> Nat] /\ errored \subseteq Chunks
    BY DEF Init, JobInit
  <2> QED
    BY <2>1, <2>2, <2>3, Typing
<1>2. \A r \in Attempts, c \in Chunks : task[r][c].pc = "none"
  BY NoTasksTyped DEF Init
<1>3. \A r \in Runs : run[r].pc = "idle"
  BY DEF Init, JobInit, NoRun, RunAt
<1>4. RunInv
  <2>1. \A r \in Attempts : InFlight(r) = {}
    BY <1>2 DEF InFlight, Working, Finished
  <2>2. \A r \in Attempts : Cardinality(InFlight(r)) = 0
    BY <2>1, FS_EmptySet
  <2>3. \A r \in Attempts : run[r].pc = "idle"
    BY <1>3, Consts
  <2>4. 0 < 2 * ChunkConcurrency /\ 0 <= 2 * ChunkConcurrency
    BY Consts
  <2> QED
    BY <2>1, <2>2, <2>3, <2>4 DEF RunInv, RunOK
<1>5. RetryInv /\ \A u \in Users : req[u].attempt = 0
  BY DEF RetryInv, Init, JobInit
<1>6. First
  <2>1. /\ job = NewRow /\ \A r \in Attempts : arq[r] = "none"
        /\ \A c \in Chunks : reviews[c] = 0 /\ ~ Accounted(c)
    BY DEF Init, JobInit, Accounted
  <2> QED
    BY <1>2, <1>3, <1>5, <2>1, Consts
    DEF First, Alone, StatusInv, LoopInv, TaskInv, Untouched, NewRow, NoProgress
<1> QED
  BY <1>1, <1>4, <1>5, <1>6 DEF IInv
-----------------------------------------------------------------------------
(* The steps that leave the chunks alone.                                  *)

LEMMA SameChunks ==
    ASSUME UNCHANGED chunkVars
    PROVE  /\ \A r \in Attempts : InFlight(r)' = InFlight(r)
           /\ \A c \in Chunks : /\ Accounted(c)' <=> Accounted(c)
                                /\ Pending(c)' <=> Pending(c)
           /\ Untouched' <=> Untouched
           /\ Covered' <=> Covered
           /\ TaskInv' <=> TaskInv
BY DEF chunkVars, InFlight, Accounted, Pending, Untouched, Covered, TaskInv

\* Where a run goes without touching its tasks.
LEMMA RunMoves ==
    ASSUME RunInv, NEW r \in Attempts, InFlight(r)' = InFlight(r),
           run'[r].pc # "idle" => arq'[r] = "queued" /\ up'["worker"] = "up",
           \/ run'[r].pc = run[r].pc
              /\ (run[r].pc = "idle" /\ arq'[r] # "done" => arq[r] # "done")
           \/ run'[r].pc = "idle" /\ arq'[r] = "done"
           \/ run'[r].pc \in {"fail", "failing"}
           \/ /\ run[r].pc \in {"wait", "start"} \/ (run[r].pc = "idle" /\ arq[r] # "done")
              /\ run'[r].pc \in {"wait", "start", "loop"}
           \/ /\ run[r].pc \in {"aftercheck", "complete", "completing"}
              /\ run'[r].pc \in {"aftercheck", "complete", "completing"}
    PROVE  RunOK(r)'
<1>1. RunOK(r)
  BY DEF RunInv
<1>2. Cardinality({}) < 2 * ChunkConcurrency /\ ChunkConcurrency \in Nat
  BY FS_EmptySet, Consts
<1> QED
  BY <1>1, <1>2 DEF RunOK

LEMMA GotoAt ==
    ASSUME JobTypeOver(LoopPcs), NEW r \in Runs, NEW pc, Goto(r, pc)
    PROVE  \A q \in Runs : /\ run'[q].pc = IF q = r THEN pc ELSE run[q].pc
                           /\ run'[q].next = run[q].next
BY DEF JobTypeOver, Goto, RunStateOver

LEMMA ReturnAt ==
    ASSUME JobTypeOver(LoopPcs), NEW r \in Attempts, Return(r)
    PROVE  /\ \A q \in Runs : /\ run'[q].pc = IF q = r THEN "idle" ELSE run[q].pc
                              /\ q # r => run'[q].next = run[q].next
           /\ \A q \in Attempts : arq'[q] = IF q = r THEN "done" ELSE arq[q]
BY Consts DEF JobTypeOver, Return, Returned, NoRun, RunAt

\* A run that ends leaves its tasks, and its id is used up.
LEMMA ReturnKeeps ==
    ASSUME IInv, NEW r \in Attempts, run[r].pc # "idle", Return(r),
           UNCHANGED <<chunkVars, up, req>>,
           \/ job' = job
           \/ job' = [job EXCEPT !.status = "failed"]
           \/ job' = [job EXCEPT !.status = "completed"] /\ run[r].pc = "completing"
    PROVE  RunInv' /\ RetryInv' /\ First'
<1>1. JobTypeOver(LoopPcs) /\ job \in Row
  BY Typing DEF IInv, JobTypeOver
<1>2. /\ \A q \in Runs : /\ run'[q].pc = IF q = r THEN "idle" ELSE run[q].pc
                         /\ q # r => run'[q].next = run[q].next
      /\ \A q \in Attempts : arq'[q] = IF q = r THEN "done" ELSE arq[q]
  BY <1>1, ReturnAt
<1>3. RunInv'
  <2> SUFFICES ASSUME NEW q \in Attempts PROVE RunOK(q)'
    BY DEF RunInv
  <2> QED
    BY <1>2, SameChunks, RunMoves, Consts DEF IInv, RunInv, RunOK
<1>4. RetryInv'
  BY DEF IInv, RetryInv
<1>5. First'
  <2> SUFFICES ASSUME ~ RecoveryMayFail, job'.retries = 0
               PROVE (Alone /\ StatusInv /\ LoopInv /\ TaskInv)'
    BY DEF First
  <2>1. job.retries = 0 /\ job'.progress = job.progress
    BY <1>1 DEF Row
  <2>2. Alone /\ StatusInv /\ LoopInv /\ TaskInv
    BY <2>1 DEF IInv, First
  <2>3. CASE r = 0
    <3>1. run'[0].pc = "idle" /\ arq'[0] = "done"
      BY <1>2, <2>3, Consts
    <3>2. Alone'
      BY <1>2, <2>2, <2>3, Consts DEF Alone, chunkVars
    <3>3. job'.status = "queued" => job.status = "queued"
      BY <1>1 DEF Row
    <3>4. job'.status = "completed" => Covered /\ InFlight(0) = {}
      BY <1>1, <2>2, <2>3, Consts DEF Row, StatusInv, LoopInv, IInv, RunInv, RunOK
    <3>5. StatusInv'
      BY <2>1, <2>2, <3>1, <3>3, <3>4, SameChunks, Consts DEF StatusInv
    <3>6. LoopInv' /\ TaskInv'
      BY <2>2, <3>1, SameChunks DEF LoopInv
    <3> QED
      BY <3>2, <3>5, <3>6
  <2>4. CASE r # 0
    BY <2>2, <2>4 DEF Alone
  <2> QED
    BY <2>3, <2>4
<1> QED
  BY <1>3, <1>4, <1>5

\* A run goes on to another control point and leaves its tasks alone.
LEMMA GotoKeeps ==
    ASSUME IInv, NEW r \in Attempts, NEW pc, run[r].pc # "idle", Goto(r, pc),
           UNCHANGED <<chunkVars, arq, up, req>>,
           \/ pc \in {"fail", "failing"} /\ job' = job
           \/ run[r].pc = "complete" /\ pc = "completing" /\ job' = job
           \/ run[r].pc = "aftercheck" /\ pc = "complete" /\ job' = job
              /\ job.status # "cancelled"
           \/ run[r].pc = "start" /\ pc = "loop" /\ job' = [job EXCEPT !.status = "processing"]
    PROVE  RunInv' /\ RetryInv' /\ First'
<1>1. JobTypeOver(LoopPcs) /\ job \in Row
  BY Typing DEF IInv, JobTypeOver
<1>2. \A q \in Runs : /\ run'[q].pc = IF q = r THEN pc ELSE run[q].pc
                      /\ run'[q].next = run[q].next
  BY <1>1, GotoAt, Consts
<1>3. RunInv'
  <2> SUFFICES ASSUME NEW q \in Attempts PROVE RunOK(q)'
    BY DEF RunInv
  <2> QED
    BY <1>2, SameChunks, RunMoves, Consts DEF IInv, RunInv, RunOK
<1>4. RetryInv'
  BY DEF IInv, RetryInv
<1>5. First'
  <2> SUFFICES ASSUME ~ RecoveryMayFail, job'.retries = 0
               PROVE (Alone /\ StatusInv /\ LoopInv /\ TaskInv)'
    BY DEF First
  <2>1. job.retries = 0 /\ job'.progress = job.progress
    BY <1>1 DEF Row
  <2>2. Alone /\ StatusInv /\ LoopInv /\ TaskInv
    BY <2>1 DEF IInv, First
  <2>3. r = 0
    BY <2>2 DEF Alone
  <2>4. /\ run'[0].pc = pc /\ run'[0].next = run[0].next
        /\ arq'[0] = arq[0] /\ up' = up
    BY <1>2, <2>3, Consts
  <2>5. Alone'
    BY <1>2, <2>2, <2>3, Consts DEF Alone, chunkVars
  <2>6. StatusInv'
    BY <1>1, <2>1, <2>2, <2>3, <2>4, SameChunks, Consts DEF StatusInv, Row
  <2>7. LoopInv'
    <3>1. CASE pc \in {"fail", "failing"}
      BY <2>4, <3>1 DEF LoopInv
    <3>2. CASE pc \in {"completing", "complete"}
      BY <2>2, <2>3, <2>4, <3>2, SameChunks DEF LoopInv
    <3>3. CASE run[r].pc = "start" /\ pc = "loop"
      <4>1. Untouched /\ run[0].next = 1
        BY <2>2, <2>3, <3>3 DEF LoopInv
      <4>2. Untouched' /\ \A c \in Chunks : ~ c < 1
        BY <4>1, SameChunks DEF Chunks
      <4> QED
        BY <2>4, <3>3, <4>1, <4>2 DEF LoopInv, Untouched
    <3> QED
      BY <3>1, <3>2, <3>3
  <2> QED
    BY <2>2, <2>5, <2>6, <2>7, SameChunks
<1> QED
  BY <1>3, <1>4, <1>5

\* The first attempt begins on a row as create_job left it.
LEMMA StartReadKeeps ==
    ASSUME IInv, NEW r \in Attempts, StartRead(r), UNCHANGED chunkVars
    PROVE  RunInv' /\ RetryInv' /\ First'
<1>1. JobTypeOver(LoopPcs) /\ job \in Row /\ run[r].pc = "wait"
  BY Typing DEF IInv, JobTypeOver, StartRead
<1>2. CASE Return(r)
  BY <1>1, <1>2, ReturnKeeps DEF StartRead
<1>3. CASE ~ Return(r)
  <2> DEFINE pc == IF job.status = "queued" THEN "start" ELSE "loop"
  <2>0. run' = [run EXCEPT ![r].pc = pc, ![r].next = ResumeAt(job)]
    BY <1>3 DEF StartRead
  <2>1. /\ job.status \in {"queued", "processing"}
        /\ UNCHANGED <<job, arq, sched, up, req>>
        /\ pc \in {"start", "loop"} /\ (job.status = "queued" => pc = "start")
    BY <1>3 DEF StartRead
  <2> HIDE DEF pc
  <2>2. \A q \in Runs : /\ run'[q].pc = IF q = r THEN pc ELSE run[q].pc
                        /\ run'[q].next = IF q = r THEN ResumeAt(job) ELSE run[q].next
    BY <1>1, <2>0, Consts DEF JobTypeOver, RunStateOver
  <2>3. RunInv'
    <3> SUFFICES ASSUME NEW q \in Attempts PROVE RunOK(q)'
      BY DEF RunInv
    <3> QED
      BY <1>1, <2>1, <2>2, SameChunks, RunMoves, Consts DEF IInv, RunInv, RunOK
  <2>4. RetryInv'
    BY <2>1 DEF IInv, RetryInv
  <2>5. First'
    <3> SUFFICES ASSUME ~ RecoveryMayFail, job'.retries = 0
                 PROVE (Alone /\ StatusInv /\ LoopInv /\ TaskInv)'
      BY DEF First
    <3>1. Alone /\ StatusInv /\ LoopInv /\ TaskInv
      BY <2>1 DEF IInv, First
    <3>2. r = 0
      BY <1>1, <3>1 DEF Alone
    <3>3. arq[0] = "queued" /\ up["worker"] = "up"
      BY <1>1, <3>2 DEF IInv, RunInv, RunOK
    <3>4. job.status = "queued" /\ job.progress.ckpt = 0 /\ Untouched
      BY <1>1, <2>1, <3>1, <3>2, <3>3 DEF StatusInv
    <3>5. run'[0].pc = "start" /\ run'[0].next = 1
      BY <2>1, <2>2, <3>2, <3>4, Consts DEF ResumeAt
    <3>6. Alone'
      <4>1. UNCHANGED <<arq, req, task>>
        BY <2>1 DEF chunkVars
      <4>2. \A q \in Attempts \ {0} : run'[q].pc = run[q].pc
        BY <2>2, <3>2, Consts
      <4> QED
        BY <3>1, <4>1, <4>2 DEF Alone
    <3> QED
      BY <2>1, <3>1, <3>4, <3>5, <3>6, SameChunks DEF StatusInv, LoopInv
  <2> QED
    BY <2>3, <2>4, <2>5
<1> QED
  BY <1>2, <1>3

LEMMA JobStepKeeps ==
    ASSUME IInv, NEW r \in Attempts, UNCHANGED chunkVars,
           JobStep(r) \/ Abort(r) \/ Stall(r)
    PROVE  RunInv' /\ RetryInv' /\ First'
<1>1. CASE StartRead(r)
  BY <1>1, StartReadKeeps
<1>2. CASE StartWrite(r)
  BY <1>2, GotoKeeps DEF StartWrite
<1>3. CASE CompleteRead(r)
  <2>1. CASE Return(r)
    BY <1>3, <2>1, ReturnKeeps DEF CompleteRead
  <2>2. CASE ~ Return(r)
    BY <1>3, <2>2, GotoKeeps DEF CompleteRead
  <2> QED
    BY <2>1, <2>2
<1>4. CASE CompleteWrite(r)
  BY <1>4, ReturnKeeps DEF CompleteWrite
<1>5. CASE FailRead(r)
  <2>1. CASE Return(r)
    BY <1>5, <2>1, ReturnKeeps DEF FailRead
  <2>2. CASE ~ Return(r)
    BY <1>5, <2>2, GotoKeeps DEF FailRead
  <2> QED
    BY <2>1, <2>2
<1>6. CASE FailWrite(r)
  BY <1>6, ReturnKeeps DEF FailWrite
<1>7. CASE Abort(r)
  BY <1>7, GotoKeeps DEF Abort, Holding
<1>8. CASE Stall(r)
  BY <1>8, ReturnKeeps DEF Stall
<1> QED
  BY <1>1, <1>2, <1>3, <1>4, <1>5, <1>6, <1>7, <1>8 DEF JobStep

\* A request leaves the runs alone; a committed retry ends the first attempt.
LEMMA ApiKeeps ==
    ASSUME IInv, NEW u \in Users, CancelRead(u) \/ RetryRead(u) \/ ApiWrite(u),
           UNCHANGED chunkVars
    PROVE  RunInv' /\ RetryInv' /\ First'
<1>1. JobTypeOver(LoopPcs) /\ job \in Row /\ req \in [Users -> Request]
  BY Typing DEF IInv, JobTypeOver
<1>2. /\ run' = run /\ up' = up
      /\ \A a \in Attempts : \/ arq'[a] = arq[a]
                             \/ arq[a] = "none" /\ arq'[a] = "queued" /\ a = req[u].attempt
                                /\ req[u].pc = "dispatch"
  BY <1>1 DEF CancelRead, RetryRead, ApiWrite, CancelWrite, Unschedule, RetryWrite,
     Dispatch, TaskId, JobTypeOver, Request
<1>3. RunInv'
  <2> SUFFICES ASSUME NEW q \in Attempts PROVE RunOK(q)'
    BY DEF RunInv
  <2> QED
    BY <1>2, SameChunks, RunMoves DEF IInv, RunInv, RunOK
<1>4. \A v \in Users : v # u => req'[v] = req[v]
  BY <1>1 DEF CancelRead, RetryRead, ApiWrite, CancelWrite, Unschedule, RetryWrite, Dispatch
<1>5. /\ req'[u].pc = "retry" => req'[u].attempt # 0
      /\ req'[u].pc = "dispatch" => RetryWrite(u)
  <2>1. CASE RetryRead(u)
    <3>1. job.retries \in Nat
      BY <1>1, BatchAssumption DEF Row, Attempts
    <3> QED
      BY <1>1, <2>1, <3>1 DEF RetryRead
  <2>2. CASE CancelRead(u) \/ CancelWrite(u) \/ Unschedule(u) \/ Dispatch(u)
    BY <1>1, <2>2 DEF CancelRead, CancelWrite, Unschedule, Dispatch, NoReq, Request
  <2>3. CASE RetryWrite(u)
    BY <1>1, <2>3 DEF RetryWrite, Request
  <2> QED
    BY <2>1, <2>2, <2>3 DEF ApiWrite
<1>6. RetryInv'
  BY <1>4, <1>5 DEF IInv, RetryInv
<1>7. First'
  <2> SUFFICES ASSUME ~ RecoveryMayFail, job'.retries = 0
               PROVE (Alone /\ StatusInv /\ LoopInv /\ TaskInv)'
    BY DEF First
  <2>1. ~ RetryWrite(u)
    BY <1>1 DEF RetryWrite, IInv, RetryInv, Row
  <2>2. job' = job \/ job' = [job EXCEPT !.status = "cancelled"]
    BY <2>1 DEF CancelRead, RetryRead, ApiWrite, CancelWrite, Unschedule, Dispatch
  <2>3. job.retries = 0 /\ job'.progress = job.progress
    BY <1>1, <2>2 DEF Row
  <2>4. Alone /\ StatusInv /\ LoopInv /\ TaskInv
    BY <2>3 DEF IInv, First
  <2>5. Alone'
    <3>1. \A a \in Attempts \ {0} : arq'[a] = "none"
      BY <1>2, <2>4 DEF Alone
    <3>2. \A v \in Users : req'[v].pc = "dispatch" => req'[v].attempt = 0
      BY <1>4, <1>5, <2>1, <2>4 DEF Alone
    <3> QED
      BY <1>2, <2>4, <3>1, <3>2 DEF Alone, chunkVars
  <2>6. arq[0] = "done" => arq'[0] = "done"
    BY <1>2, Consts
  <2>7. job'.status = job.status \/ job'.status = "cancelled"
    BY <1>1, <2>2 DEF Row
  <2>8. StatusInv'
    BY <1>2, <2>3, <2>4, <2>6, <2>7, SameChunks, Consts DEF StatusInv
  <2>9. LoopInv'
    BY <1>2, <2>4, <2>7, SameChunks DEF LoopInv, chunkVars
  <2> QED
    BY <2>4, <2>5, <2>8, <2>9, SameChunks
<1> QED
  BY <1>3, <1>6, <1>7

LEMMA DeliverKeeps ==
    ASSUME IInv, NEW r \in Attempts, Deliver(r), UNCHANGED chunkVars
    PROVE  RunInv' /\ RetryInv' /\ First'
<1>1. /\ JobTypeOver(LoopPcs)
      /\ arq[r] = "queued" /\ run[r].pc = "idle" /\ up["worker"] = "up"
      /\ UNCHANGED <<job, arq, up, req>>
  BY Typing DEF IInv, Deliver
<1>2. \A q \in Runs : /\ run'[q].pc = IF q = r THEN "wait" ELSE run[q].pc
                      /\ run'[q].next = run[q].next
  BY <1>1, GotoAt, Consts DEF Deliver
<1>3. RunInv'
  <2> SUFFICES ASSUME NEW q \in Attempts PROVE RunOK(q)'
    BY DEF RunInv
  <2> QED
    BY <1>1, <1>2, SameChunks, RunMoves, Consts DEF IInv, RunInv, RunOK
<1>4. RetryInv'
  BY <1>1 DEF IInv, RetryInv
<1>5. First'
  <2> SUFFICES ASSUME ~ RecoveryMayFail, job'.retries = 0
               PROVE (Alone /\ StatusInv /\ LoopInv /\ TaskInv)'
    BY DEF First
  <2>1. Alone /\ StatusInv /\ LoopInv /\ TaskInv
    BY <1>1 DEF IInv, First
  <2>2. r = 0
    BY <1>1, <2>1 DEF Alone
  <2>3. run'[0].pc = "wait"
    BY <1>2, <2>2, Consts
  <2>4. Alone'
    BY <1>1, <1>2, <2>1, <2>2, Consts DEF Alone, chunkVars
  <2> QED
    BY <1>1, <2>1, <2>2, <2>3, <2>4, SameChunks DEF StatusInv, LoopInv
<1> QED
  BY <1>3, <1>4, <1>5

\* While the worker is down or recovering nothing runs in it.
LEMMA RecoveryKeeps ==
    ASSUME IInv, UNCHANGED chunkVars,
           Restart("worker") \/ RecoverRead \/ RecoverWrite \/ RecoverFails
    PROVE  RunInv' /\ RetryInv' /\ First'
<1>1. /\ JobTypeOver(LoopPcs) /\ job \in Row
      /\ up["worker"] # "up" /\ UNCHANGED <<arq, run, req>>
      /\ up \in [Procs -> {"up", "down", "recover", "recovering"}]
  BY Typing DEF IInv, JobTypeOver, Restart, RecoverRead, RecoverWrite, RecoverFails
<1>2. \A r \in Attempts : run[r].pc = "idle"
  BY <1>1 DEF IInv, RunInv, RunOK
<1>3. RunInv'
  <2> SUFFICES ASSUME NEW q \in Attempts PROVE RunOK(q)'
    BY DEF RunInv
  <2> QED
    BY <1>1, <1>2, SameChunks, RunMoves DEF IInv, RunInv, RunOK
<1>4. RetryInv'
  BY <1>1 DEF IInv, RetryInv
<1>5. First'
  <2> SUFFICES ASSUME ~ RecoveryMayFail, job'.retries = 0
               PROVE (Alone /\ StatusInv /\ LoopInv /\ TaskInv)'
    BY DEF First
  <2>1. job' = job \/ job' = [job EXCEPT !.status = "failed"]
    BY DEF Restart, RecoverRead, RecoverWrite, RecoverFails
  <2>2. job.retries = 0 /\ job'.progress = job.progress
        /\ (job'.status = job.status \/ job'.status = "failed")
    BY <1>1, <2>1 DEF Row
  <2>3. Alone /\ StatusInv /\ LoopInv /\ TaskInv
    BY <2>2 DEF IInv, First
  <2>4. job'.status = "processing" => up'["worker"] # "up"
    <3>1. "worker" \in Procs
      BY DEF Procs
    <3>2. CASE Restart("worker")
      BY <1>1, <3>1, <3>2 DEF Restart
    <3>3. CASE RecoverRead
      BY <1>1, <3>1, <3>3 DEF RecoverRead
    <3>4. CASE RecoverWrite
      BY <1>1, <3>4 DEF RecoverWrite, Row
    <3>5. ~ RecoverFails
      BY DEF RecoverFails
    <3> QED
      BY <3>2, <3>3, <3>4, <3>5
  <2>5. Alone'
    BY <1>1, <2>3 DEF Alone, chunkVars
  <2>6. StatusInv'
    BY <1>1, <2>2, <2>3, <2>4, SameChunks, Consts DEF StatusInv
  <2>7. LoopInv'
    BY <1>1, <1>2, Consts DEF LoopInv
  <2> QED
    BY <2>3, <2>5, <2>6, <2>7, SameChunks
<1> QED
  BY <1>3, <1>4, <1>5

\* A crash ends every run and every task.
LEMMA CrashKeeps ==
    ASSUME IInv, WorkerCrash
    PROVE  IInv'
<1>1. /\ JobTypeOver(LoopPcs) /\ ~ sched /\ job \in Row
      /\ reviews \in [Chunks -> Nat] /\ errored \subseteq Chunks
      /\ Crash("worker") /\ "worker" \in Procs /\ reviews' = reviews /\ errored' = errored
      /\ task' = [r \in Attempts |-> NoTasks]
  BY Typing DEF IInv, JobTypeOver, WorkerCrash, Procs
<1>2. TypeOK'
  <2>1. JobTypeOver(LoopPcs)'
    BY <1>1, FaultStepType
  <2>2. task' \in [Attempts -> [Chunks -> Task]]
    BY <1>1, NoTasksTyped
  <2> QED
    BY <1>1, <2>1, <2>2, TypingNext DEF Crash
<1>3. /\ \A r \in Attempts : run'[r].pc = "idle"
      /\ \A r \in Attempts, c \in Chunks : task'[r][c].pc = "none"
      /\ UNCHANGED <<job, arq, req>> /\ up'["worker"] = "down"
  <2>1. \A r \in Attempts : Proc(r) = "worker"
    BY Consts, BatchAssumption DEF Proc, Attempts
  <2>2. up \in [Procs -> {"up", "down", "recover", "recovering"}]
    BY <1>1 DEF JobTypeOver
  <2>3. \A r \in Attempts : run'[r] = NoRun
    BY <1>1, <2>1, Consts DEF Crash
  <2>4. UNCHANGED <<job, arq, req>> /\ up'["worker"] = "down"
    BY <1>1, <2>2 DEF Crash
  <2> QED
    BY <1>1, <2>3, <2>4, NoTasksTyped DEF NoRun, RunAt
<1>4. \A r \in Attempts : InFlight(r)' = {}
  BY <1>3 DEF InFlight, Working, Finished
<1>5. RunInv'
  <2> SUFFICES ASSUME NEW r \in Attempts PROVE RunOK(r)'
    BY DEF RunInv
  <2>1. run'[r].pc = "idle" /\ InFlight(r)' = {} /\ Cardinality(InFlight(r))' = 0
    BY <1>3, <1>4, FS_EmptySet
  <2>2. 0 <= 2 * ChunkConcurrency
    BY Consts
  <2> QED
    BY <2>1, <2>2 DEF RunOK
<1>6. RetryInv'
  BY <1>3 DEF IInv, RetryInv
<1>7. First'
  <2> SUFFICES ASSUME ~ RecoveryMayFail, job'.retries = 0
               PROVE (Alone /\ StatusInv /\ LoopInv /\ TaskInv)'
    BY DEF First
  <2>1. Alone /\ StatusInv /\ LoopInv /\ TaskInv
    BY <1>3 DEF IInv, First
  <2>2. Alone'
    BY <1>3, <2>1 DEF Alone
  <2>3. \A c \in Chunks : Accounted(c)' <=> Accounted(c)
    BY <1>1 DEF Accounted
  <2>4. StatusInv'
    BY <1>1, <1>3, <1>4, <2>1, <2>3, Consts DEF StatusInv, Untouched, Covered
  <2>5. LoopInv'
    BY <1>3, Consts DEF LoopInv
  <2>6. TaskInv'
    BY <1>1, <1>3, <2>1, Consts DEF TaskInv
  <2> QED
    BY <2>2, <2>4, <2>5, <2>6
<1> QED
  BY <1>2, <1>5, <1>6, <1>7 DEF IInv
-----------------------------------------------------------------------------
(* The steps of a chunk task.                                              *)

\* A task in flight stays in flight; what it does to its chunk's reviews is
\* what its new control point says.
LEMMA TaskKeeps ==
    ASSUME IInv, NEW r \in Attempts, NEW c \in Chunks,
           UNCHANGED <<arq, up, run, req>>,
           job'.status = job.status, job'.retries = job.retries,
           task[r][c].pc \in {"queued"} \cup Working,
           task'[r][c].pc \in Working \cup Finished,
           \A q \in Attempts, d \in Chunks : q # r \/ d # c => task'[q][d] = task[q][d],
           \A d \in Chunks : d # c => reviews'[d] = reviews[d],
           errored \subseteq errored', reviews[c] > 0 => reviews'[c] > 0,
           ~ RecoveryMayFail /\ job.retries = 0 =>
               /\ reviews'[c] <= 1
               /\ errored' \subseteq errored \cup {c}
               /\ task'[r][c].pc = "infer" => ~ Accounted(c)'
               /\ task'[r][c].pc \in {"progress", "commit"} =>
                    c \notin errored' /\ (task'[r][c].ok => reviews'[c] > 0)
               /\ task'[r][c].pc = "done" => Accounted(c)' \/ job.status = "cancelled"
    PROVE  RunInv' /\ RetryInv' /\ First'
<1>1. \A q \in Attempts : InFlight(q)' = InFlight(q)
  BY DEF InFlight
<1>2. c \in InFlight(r)
  BY DEF InFlight
<1>3. RunInv'
  BY <1>1 DEF IInv, RunInv, RunOK
<1>4. RetryInv'
  BY DEF IInv, RetryInv
<1>5. First'
  <2> SUFFICES ASSUME ~ RecoveryMayFail, job.retries = 0
               PROVE (Alone /\ StatusInv /\ LoopInv /\ TaskInv)'
    BY DEF First
  <2>1. Alone /\ StatusInv /\ LoopInv /\ TaskInv
    BY DEF IInv, First
  <2>2. r = 0
    BY <2>1 DEF Alone, Working
  <2>3. Alone'
    BY <2>1, <2>2 DEF Alone
  <2>4. job.status \notin {"queued", "completed"}
    BY <1>2, <2>1, <2>2 DEF StatusInv, Untouched, Working
  <2>5. StatusInv'
    BY <2>1, <2>4 DEF StatusInv
  <2>6. run[0].pc \notin {"start", "aftercheck", "complete", "completing"}
    BY <1>2, <2>2 DEF IInv, RunInv, RunOK
  <2>7. \A d \in Chunks : Accounted(d) => Accounted(d)'
    BY DEF Accounted
  <2>8. \A d \in Chunks : Pending(d) =>
          Pending(d)' \/ Accounted(d)' \/ job.status = "cancelled"
    BY <2>2, Consts DEF Pending, Finished
  <2>9. run[0].pc \in {"loop", "drain"} => ~ c >= run[0].next
    BY <2>1, <2>2 DEF LoopInv, Working
  <2>10. \A d \in Chunks : d # c =>
           /\ Accounted(d)' <=> Accounted(d)
           /\ d \in errored' <=> d \in errored
    BY DEF Accounted
  <2>11. LoopInv'
    BY <2>1, <2>2, <2>6, <2>7, <2>8, <2>9, <2>10, Consts DEF LoopInv
  <2>12. TaskInv'
    <3> SUFFICES ASSUME NEW d \in Chunks
                 PROVE  /\ reviews'[d] <= 1
                        /\ task'[0][d].pc \in {"queued", "infer"} => ~ Accounted(d)'
                        /\ task'[0][d].pc \in {"progress", "commit"} =>
                             d \notin errored' /\ (task'[0][d].ok => reviews'[d] > 0)
      BY DEF TaskInv
    <3>1. CASE d = c
      BY <2>2, <3>1, Consts DEF Working, Finished
    <3>2. CASE d # c
      BY <2>1, <2>2, <2>10, <3>2, Consts DEF TaskInv
    <3> QED
      BY <3>1, <3>2
  <2> QED
    BY <2>3, <2>5, <2>11, <2>12
<1> QED
  BY <1>3, <1>4, <1>5

LEMMA TaskSet ==
    ASSUME task \in [Attempts -> [Chunks -> Task]], NEW r \in Attempts, NEW c \in Chunks,
           NEW t \in Task, task' = [task EXCEPT ![r][c] = t]
    PROVE  /\ task' \in [Attempts -> [Chunks -> Task]] /\ task'[r][c] = t
           /\ \A q \in Attempts, d \in Chunks : q # r \/ d # c => task'[q][d] = task[q][d]
OBVIOUS

LEMMA TaskStartKeeps ==
    ASSUME IInv, NEW r \in Attempts, NEW c \in Chunks, TaskStart(r, c)
    PROVE  IInv'
<1> DEFINE pc == IF job.status = "cancelled" THEN "done" ELSE "infer"
<1> DEFINE t == [task[r][c] EXCEPT !.pc = pc]
<1>1. /\ JobTypeOver(LoopPcs) /\ ~ sched /\ task \in [Attempts -> [Chunks -> Task]]
      /\ reviews \in [Chunks -> Nat] /\ errored \subseteq Chunks
      /\ task[r][c] \in Task /\ task[r][c].pc = "queued"
      /\ UNCHANGED <<jobVars, reviews, errored>>
  BY Typing DEF IInv, TaskStart
<1>2. task' = [task EXCEPT ![r][c] = t]
  BY DEF TaskStart, SetTask
<1>3. pc \in Working \cup Finished
  BY DEF Working, Finished
<1>4. t \in Task /\ t.pc = pc /\ t.ok = task[r][c].ok
  BY <1>1, <1>3 DEF Task
<1> HIDE DEF t
<1>5. /\ task' \in [Attempts -> [Chunks -> Task]] /\ task'[r][c] = t
      /\ \A q \in Attempts, d \in Chunks : q # r \/ d # c => task'[q][d] = task[q][d]
  BY <1>1, <1>2, <1>4, TaskSet
<1>6. TypeOK'
  <2>1. JobTypeOver(LoopPcs)'
    BY <1>1, JobIdleType
  <2> QED
    BY <1>1, <1>5, <2>1, TypingNext DEF jobVars
<1>7. ~ RecoveryMayFail /\ job.retries = 0 => reviews[c] <= 1 /\ ~ Accounted(c)
  <2>1. ~ RecoveryMayFail /\ job.retries = 0 => r = 0
    BY <1>1 DEF IInv, First, Alone
  <2> QED
    BY <1>1, <2>1 DEF IInv, First, TaskInv
<1>8. Accounted(c)' <=> Accounted(c)
  BY <1>1 DEF Accounted
<1>9. t.pc \notin {"progress", "commit"} /\ (t.pc = "done" => job.status = "cancelled")
  BY <1>4
<1>10. RunInv' /\ RetryInv' /\ First'
  BY <1>1, <1>3, <1>4, <1>5, <1>7, <1>8, <1>9, TaskKeeps DEF jobVars
<1> QED
  BY <1>6, <1>10 DEF IInv

LEMMA TaskPersistKeeps ==
    ASSUME IInv, NEW r \in Attempts, NEW c \in Chunks, TaskPersist(r, c)
    PROVE  IInv'
<1> DEFINE t == [task[r][c] EXCEPT !.pc = "progress"]
<1>1. /\ JobTypeOver(LoopPcs) /\ ~ sched /\ task \in [Attempts -> [Chunks -> Task]]
      /\ reviews \in [Chunks -> Nat] /\ errored \subseteq Chunks
      /\ task[r][c] \in Task /\ task[r][c].pc = "infer"
      /\ UNCHANGED <<jobVars, errored>>
  BY Typing DEF IInv, TaskPersist
<1>2. task' = [task EXCEPT ![r][c] = t] /\ reviews' = [reviews EXCEPT ![c] = @ + 1]
  BY DEF TaskPersist, SetTask
<1>3. "progress" \in Working /\ "infer" \in Working
  BY DEF Working
<1>4. t \in Task /\ t.pc = "progress"
  BY <1>1, <1>3 DEF Task
<1> HIDE DEF t
<1>5. /\ task' \in [Attempts -> [Chunks -> Task]] /\ task'[r][c] = t
      /\ \A q \in Attempts, d \in Chunks : q # r \/ d # c => task'[q][d] = task[q][d]
  BY <1>1, <1>2, <1>4, TaskSet
<1>6. /\ reviews' \in [Chunks -> Nat] /\ reviews'[c] = reviews[c] + 1 /\ reviews[c] \in Nat
      /\ \A d \in Chunks : d # c => reviews'[d] = reviews[d]
  BY <1>1, <1>2
<1>7. TypeOK'
  <2>1. JobTypeOver(LoopPcs)'
    BY <1>1, JobIdleType
  <2> QED
    BY <1>1, <1>5, <1>6, <2>1, TypingNext DEF jobVars
<1>8. ~ RecoveryMayFail /\ job.retries = 0 => reviews[c] = 0 /\ c \notin errored
  <2>1. ~ RecoveryMayFail /\ job.retries = 0 => r = 0
    BY <1>1 DEF IInv, First, Alone
  <2> QED
    BY <1>1, <1>6, <2>1 DEF IInv, First, TaskInv, Accounted
<1>9. ~ RecoveryMayFail /\ job.retries = 0 => reviews'[c] <= 1 /\ reviews'[c] > 0
  BY <1>6, <1>8
<1>10. reviews'[c] > 0
  BY <1>6
<1>11. RunInv' /\ RetryInv' /\ First'
  BY <1>1, <1>3, <1>4, <1>5, <1>6, <1>8, <1>9, <1>10, TaskKeeps DEF jobVars
<1> QED
  BY <1>7, <1>11 DEF IInv

\* A task that raises, at an inference or anywhere else.
LEMMA TaskFaultKeeps ==
    ASSUME IInv, NEW r \in Attempts, NEW c \in Chunks,
           TaskInferenceFails(r, c) \/ TaskAbort(r, c)
    PROVE  IInv'
<1>1. /\ JobTypeOver(LoopPcs) /\ ~ sched /\ task \in [Attempts -> [Chunks -> Task]]
      /\ reviews \in [Chunks -> Nat] /\ errored \subseteq Chunks
      /\ task[r][c] \in Task /\ task[r][c].pc \in Working /\ Fault
      /\ UNCHANGED <<job, arq, sched, up, run, req, reviews, errored>>
  BY Typing DEF IInv, TaskInferenceFails, TaskAbort, Working
<1>2. "progress" \in Working /\ "failed" \in Finished
  BY DEF Working, Finished
<1>3. \E t \in Task : /\ task' = [task EXCEPT ![r][c] = t]
                      /\ \/ t.pc = "failed"
                         \/ t.pc = "progress" /\ t.ok = FALSE
  <2>1. CASE TaskAbort(r, c)
    <3> DEFINE t == [NoTask EXCEPT !.pc = "failed"]
    <3>1. t \in Task /\ t.pc = "failed"
      BY <1>2, NoTaskTyped DEF Task
    <3>2. task' = [task EXCEPT ![r][c] = t]
      BY <2>1 DEF TaskAbort
    <3> QED
      BY <3>1, <3>2
  <2>2. CASE TaskInferenceFails(r, c)
    <3> DEFINE t == [task[r][c] EXCEPT !.pc = "progress", !.ok = FALSE]
    <3>1. t \in Task /\ t.pc = "progress" /\ t.ok = FALSE
      BY <1>1, <1>2 DEF Task
    <3>2. task' = [task EXCEPT ![r][c] = t]
      BY <2>2 DEF TaskInferenceFails
    <3> QED
      BY <3>1, <3>2
  <2> QED
    BY <2>1, <2>2
<1>4. PICK t \in Task : /\ task' = [task EXCEPT ![r][c] = t]
                        /\ \/ t.pc = "failed"
                           \/ t.pc = "progress" /\ t.ok = FALSE
  BY <1>3
<1>5. /\ task' \in [Attempts -> [Chunks -> Task]] /\ task'[r][c] = t
      /\ \A q \in Attempts, d \in Chunks : q # r \/ d # c => task'[q][d] = task[q][d]
  BY <1>1, <1>4, TaskSet
<1>6. TypeOK'
  <2>1. faults' \in 0..MaxFaults
    BY <1>1, FaultType DEF JobTypeOver
  <2>2. JobTypeOver(LoopPcs)'
    BY <1>1, <2>1 DEF JobTypeOver
  <2> QED
    BY <1>1, <1>5, <2>2, TypingNext
<1>7. ~ RecoveryMayFail /\ job.retries = 0 =>
        reviews[c] <= 1 /\ (t.pc = "progress" => c \notin errored)
  <2>1. ~ RecoveryMayFail /\ job.retries = 0 => r = 0
    BY <1>1 DEF IInv, First, Alone, Working
  <2>2. t.pc = "progress" => task[r][c].pc = "infer"
    <3>1. TaskAbort(r, c) => task' = [task EXCEPT ![r][c] = [NoTask EXCEPT !.pc = "failed"]]
      BY DEF TaskAbort
    <3>2. TaskAbort(r, c) => task'[r][c].pc = "failed"
      BY <1>1, <3>1, NoTaskTyped DEF Task
    <3> QED
      BY <1>5, <3>2 DEF TaskInferenceFails
  <2> QED
    BY <2>1, <2>2 DEF IInv, First, TaskInv, Accounted
<1>8. RunInv' /\ RetryInv' /\ First'
  BY <1>1, <1>2, <1>4, <1>5, <1>7, TaskKeeps DEF Finished
<1> QED
  BY <1>6, <1>8 DEF IInv

LEMMA TaskProgressReadKeeps ==
    ASSUME IInv, NEW r \in Attempts, NEW c \in Chunks, TaskProgressRead(r, c)
    PROVE  IInv'
<1> DEFINE t == [task[r][c] EXCEPT !.pc = "commit", !.seen = job.progress]
<1>1. /\ JobTypeOver(LoopPcs) /\ ~ sched /\ task \in [Attempts -> [Chunks -> Task]]
      /\ reviews \in [Chunks -> Nat] /\ errored \subseteq Chunks
      /\ task[r][c] \in Task /\ task[r][c].pc = "progress" /\ job.progress \in Progress
      /\ UNCHANGED <<jobVars, reviews, errored>>
  BY Typing DEF IInv, TaskProgressRead, JobTypeOver, Row
<1>2. task' = [task EXCEPT ![r][c] = t]
  BY DEF TaskProgressRead
<1>3. "commit" \in Working /\ "progress" \in Working
  BY DEF Working
<1>4. t \in Task /\ t.pc = "commit" /\ t.ok = task[r][c].ok
  BY <1>1, <1>3 DEF Task
<1> HIDE DEF t
<1>5. /\ task' \in [Attempts -> [Chunks -> Task]] /\ task'[r][c] = t
      /\ \A q \in Attempts, d \in Chunks : q # r \/ d # c => task'[q][d] = task[q][d]
  BY <1>1, <1>2, <1>4, TaskSet
<1>6. TypeOK'
  <2>1. JobTypeOver(LoopPcs)'
    BY <1>1, JobIdleType
  <2> QED
    BY <1>1, <1>5, <2>1, TypingNext DEF jobVars
<1>7. ~ RecoveryMayFail /\ job.retries = 0 =>
        reviews[c] <= 1 /\ c \notin errored /\ (t.ok => reviews[c] > 0)
  <2>1. ~ RecoveryMayFail /\ job.retries = 0 => r = 0
    BY <1>1 DEF IInv, First, Alone
  <2> QED
    BY <1>1, <1>4, <2>1 DEF IInv, First, TaskInv
<1>8. RunInv' /\ RetryInv' /\ First'
  BY <1>1, <1>3, <1>4, <1>5, <1>7, TaskKeeps DEF jobVars
<1> QED
  BY <1>6, <1>8 DEF IInv

LEMMA TaskProgressWriteKeeps ==
    ASSUME IInv, NEW r \in Attempts, NEW c \in Chunks, TaskProgressWrite(r, c)
    PROVE  IInv'
<1> DEFINE old == task[r][c]
<1> DEFINE t == [NoTask EXCEPT !.pc = "done"]
<1>1. /\ JobTypeOver(LoopPcs) /\ ~ sched /\ task \in [Attempts -> [Chunks -> Task]]
      /\ reviews \in [Chunks -> Nat] /\ errored \subseteq Chunks
      /\ old \in Task /\ old.pc = "commit" /\ job \in Row
      /\ UNCHANGED <<arq, sched, up, run, req, faults, reviews>>
  BY Typing DEF IInv, TaskProgressWrite, JobTypeOver
<1>2. /\ task' = [task EXCEPT ![r][c] = t]
      /\ job' = [job EXCEPT !.progress = ApplyProgress(@, old.seen, c, old.ok)]
      /\ errored' = IF old.ok THEN errored ELSE errored \cup {c}
  BY DEF TaskProgressWrite
<1>3. "done" \in Finished /\ "commit" \in Working
  BY DEF Working, Finished
<1>4. t \in Task /\ t.pc = "done"
  BY <1>3, NoTaskTyped DEF Task
<1> HIDE DEF t
<1>5. /\ task' \in [Attempts -> [Chunks -> Task]] /\ task'[r][c] = t
      /\ \A q \in Attempts, d \in Chunks : q # r \/ d # c => task'[q][d] = task[q][d]
  BY <1>1, <1>2, <1>4, TaskSet
<1>6. job' \in Row /\ job'.status = job.status /\ job'.retries = job.retries
  <2>1. job.progress \in Progress /\ old.seen \in Progress /\ old.ok \in BOOLEAN
    BY <1>1 DEF Row, Task
  <2>2. ApplyProgress(job.progress, old.seen, c, old.ok) \in Progress
    BY <2>1, ApplyType
  <2> QED
    BY <1>1, <1>2, <2>2 DEF Row
<1>7. TypeOK'
  <2>1. JobTypeOver(LoopPcs)'
    BY <1>1, <1>6 DEF JobTypeOver
  <2>2. errored' \subseteq Chunks
    BY <1>1, <1>2
  <2> QED
    BY <1>1, <1>5, <2>1, <2>2, TypingNext
<1>8. ~ RecoveryMayFail /\ job.retries = 0 => reviews[c] <= 1 /\ Accounted(c)'
  <2>1. ~ RecoveryMayFail /\ job.retries = 0 => r = 0
    BY <1>1 DEF IInv, First, Alone
  <2>2. ~ RecoveryMayFail /\ job.retries = 0 => reviews[c] <= 1 /\ (old.ok => reviews[c] > 0)
    BY <1>1, <2>1 DEF IInv, First, TaskInv
  <2> QED
    BY <1>1, <1>2, <2>2 DEF Accounted
<1>9. errored \subseteq errored' /\ errored' \subseteq errored \cup {c}
  BY <1>2
<1> HIDE DEF old
<1>10. RunInv' /\ RetryInv' /\ First'
  BY <1>1, <1>3, <1>4, <1>5, <1>6, <1>8, <1>9, TaskKeeps DEF old
<1> QED
  BY <1>7, <1>10 DEF IInv

-----------------------------------------------------------------------------
(* The steps of the producer.                                              *)

LEMMA Collects ==
    ASSUME NEW ts \in [Chunks -> Task]
    PROVE  /\ Collected(ts) \in [Chunks -> Task]
           /\ \A c \in Chunks : IF ts[c].pc \in Finished THEN Collected(ts)[c].pc = "collected"
                                ELSE Collected(ts)[c] = ts[c]
<1> DEFINE none == [NoTask EXCEPT !.pc = "collected"]
<1>1. none \in Task /\ none.pc = "collected"
  BY NoTaskTyped DEF Task
<1>2. Collected(ts) = [c \in Chunks |-> IF ts[c].pc \in Finished THEN none ELSE ts[c]]
  BY DEF Collected
<1> HIDE DEF none
<1> QED
  BY <1>1, <1>2

LEMMA Cancels ==
    ASSUME NEW ts \in [Chunks -> Task]
    PROVE  /\ Cancelled(ts) \in [Chunks -> Task]
           /\ \A c \in Chunks : IF ts[c].pc \in {"queued"} \cup Working
                                THEN Cancelled(ts)[c].pc = "collected"
                                ELSE Cancelled(ts)[c] = ts[c]
<1> DEFINE none == [NoTask EXCEPT !.pc = "collected"]
<1>1. none \in Task /\ none.pc = "collected"
  BY NoTaskTyped DEF Task
<1>2. Cancelled(ts) = [c \in Chunks |-> IF ts[c].pc \in {"queued"} \cup Working
                                        THEN none ELSE ts[c]]
  BY DEF Cancelled
<1> HIDE DEF none
<1> QED
  BY <1>1, <1>2

\* What the producer does to the tasks of its run: finished ones are
\* collected, and with all = TRUE the others are cancelled first.
Drops(r, all) ==
    /\ task' \in [Attempts -> [Chunks -> Task]]
    /\ \A q \in Attempts : q # r => task'[q] = task[q]
    /\ \A c \in Chunks :
        /\ task'[r][c] = task[r][c] \/ (c \in InFlight(r) /\ task'[r][c].pc = "collected")
        /\ task[r][c].pc \in Finished => task'[r][c].pc = "collected"
        /\ all /\ c \in InFlight(r) => task'[r][c].pc = "collected"
        /\ ~ all /\ task[r][c].pc \notin Finished => task'[r][c] = task[r][c]

LEMMA CollectDrops ==
    ASSUME task \in [Attempts -> [Chunks -> Task]], NEW r \in Attempts,
           task' = [task EXCEPT ![r] = Collected(@)]
    PROVE  Drops(r, FALSE)
<1>1. task[r] \in [Chunks -> Task]
  OBVIOUS
<1>2. Collected(task[r]) \in [Chunks -> Task] /\ task'[r] = Collected(task[r])
  BY <1>1, Collects
<1>3. task' \in [Attempts -> [Chunks -> Task]] /\ \A q \in Attempts : q # r => task'[q] = task[q]
  BY <1>2
<1>4. \A c \in Chunks : IF task[r][c].pc \in Finished THEN task'[r][c].pc = "collected"
                        ELSE task'[r][c] = task[r][c]
  BY <1>1, <1>2, Collects
<1> QED
  BY <1>3, <1>4 DEF Drops, InFlight

LEMMA CancelDrops ==
    ASSUME task \in [Attempts -> [Chunks -> Task]], NEW r \in Attempts,
           task' = [task EXCEPT ![r] = Collected(Cancelled(@))]
    PROVE  Drops(r, TRUE)
<1> DEFINE ts == Cancelled(task[r])
<1>1. task[r] \in [Chunks -> Task]
  OBVIOUS
<1>2. /\ ts \in [Chunks -> Task]
      /\ \A c \in Chunks : IF task[r][c].pc \in {"queued"} \cup Working
                           THEN ts[c].pc = "collected" ELSE ts[c] = task[r][c]
  BY <1>1, Cancels
<1>3. task' = [task EXCEPT ![r] = Collected(ts)]
  OBVIOUS
<1> HIDE DEF ts
<1>4. Collected(ts) \in [Chunks -> Task] /\ task'[r] = Collected(ts)
  BY <1>2, <1>3, Collects
<1>5. task' \in [Attempts -> [Chunks -> Task]] /\ \A q \in Attempts : q # r => task'[q] = task[q]
  BY <1>3, <1>4
<1>6. \A c \in Chunks : IF ts[c].pc \in Finished THEN task'[r][c].pc = "collected"
                        ELSE task'[r][c] = ts[c]
  BY <1>2, <1>4, Collects
<1>7. "collected" \notin Finished
  BY DEF Finished
<1>8. \A c \in Chunks : IF task[r][c].pc \in {"queued"} \cup Working \cup Finished
                        THEN task'[r][c].pc = "collected" ELSE task'[r][c] = task[r][c]
  BY <1>2, <1>6, <1>7
<1> QED
  BY <1>5, <1>8 DEF Drops, InFlight

\* What is in flight after the tasks of run r were collected.
LEMMA DropInFlight ==
    ASSUME task \in [Attempts -> [Chunks -> Task]], NEW r \in Attempts, NEW all, Drops(r, all)
    PROVE  /\ \A q \in Attempts : q # r => InFlight(q)' = InFlight(q)
           /\ InFlight(r)' \subseteq InFlight(r)
           /\ Cardinality(InFlight(r)') <= Cardinality(InFlight(r))
           /\ (\E c \in Chunks : task[r][c].pc \in Finished) =>
                Cardinality(InFlight(r)') < Cardinality(InFlight(r))
           /\ all => InFlight(r)' = {}
           /\ (\A c \in InFlight(r) : task[r][c].pc \in Finished) => InFlight(r)' = {}
<1>1. \A q \in Attempts : q # r => InFlight(q)' = InFlight(q)
  BY DEF Drops, InFlight
<1>2. \A c \in Chunks : task'[r][c].pc = "collected" => c \notin InFlight(r)'
  BY DEF InFlight, Working, Finished
<1>3. InFlight(r)' \subseteq InFlight(r)
  BY <1>2 DEF Drops, InFlight
<1>4. all => InFlight(r)' = {}
  BY <1>2, <1>3, InFlightFinite DEF Drops
<1>5. (\A c \in InFlight(r) : task[r][c].pc \in Finished) => InFlight(r)' = {}
  BY <1>2, <1>3, InFlightFinite DEF Drops
<1>6. IsFiniteSet(InFlight(r)) /\ IsFiniteSet(InFlight(r)')
  BY <1>3, InFlightFinite, FS_Subset
<1>7. Cardinality(InFlight(r)') <= Cardinality(InFlight(r))
  BY <1>3, <1>6, FS_Subset
<1>8. (\E c \in Chunks : task[r][c].pc \in Finished) =>
        Cardinality(InFlight(r)') < Cardinality(InFlight(r))
  <2> SUFFICES ASSUME NEW c \in Chunks, task[r][c].pc \in Finished
               PROVE  Cardinality(InFlight(r)') < Cardinality(InFlight(r))
    OBVIOUS
  <2>1. c \in InFlight(r) /\ c \notin InFlight(r)'
    BY <1>2 DEF Drops, InFlight
  <2>2. InFlight(r)' # InFlight(r)
    BY <2>1
  <2>3. /\ Cardinality(InFlight(r)') \in Nat /\ Cardinality(InFlight(r)) \in Nat
        /\ Cardinality(InFlight(r)') # Cardinality(InFlight(r))
    BY <1>3, <1>6, <2>2, FS_Subset, FS_CardinalityType
  <2> QED
    BY <1>7, <2>3
<1> QED
  BY <1>1, <1>3, <1>4, <1>5, <1>7, <1>8

\* Where the producer goes when it collects tasks, or waits for them.
ProducerGoes(r, pc, all) ==
    \/ run[r].pc = "loop" /\ pc = "aftercheck" /\ all /\ job.status = "cancelled"
    \/ run[r].pc \in {"drain", "gather"} /\ pc = "fail"
    \/ /\ run[r].pc = "drain" /\ pc = "loop" /\ ~ all
       /\ (\E c \in Chunks : task[r][c].pc \in Finished)
       /\ (\A c \in Chunks : task[r][c].pc # "failed")
    \/ /\ run[r].pc = "gather" /\ pc = "aftercheck" /\ ~ all
       /\ (\A c \in InFlight(r) : task[r][c].pc \in Finished)
       /\ (\A c \in Chunks : task[r][c].pc # "failed")

LEMMA ProducerKeeps ==
    ASSUME IInv, NEW r \in Attempts, NEW pc, NEW all \in BOOLEAN, Drops(r, all),
           UNCHANGED <<job, up, req, reviews, errored>>,
           \/ Goto(r, pc) /\ arq' = arq /\ ProducerGoes(r, pc, all)
           \/ Return(r) /\ run[r].pc = "gather"
    PROVE  RunInv' /\ RetryInv' /\ First'
<1>1. JobTypeOver(LoopPcs) /\ task \in [Attempts -> [Chunks -> Task]]
  BY Typing DEF IInv
<1>2. /\ \A q \in Runs : run'[q].pc = IF q = r THEN (IF Return(r) THEN "idle" ELSE pc)
                                      ELSE run[q].pc
      /\ \A q \in Runs : q # r => run'[q].next = run[q].next
      /\ ~ Return(r) => run'[r].next = run[r].next
      /\ \A q \in Attempts : arq'[q] = IF q = r /\ Return(r) THEN "done" ELSE arq[q]
  BY <1>1, GotoAt, ReturnAt, Consts
<1>3. /\ \A q \in Attempts : q # r => InFlight(q)' = InFlight(q)
      /\ InFlight(r)' \subseteq InFlight(r)
      /\ Cardinality(InFlight(r)') <= Cardinality(InFlight(r))
      /\ (\E c \in Chunks : task[r][c].pc \in Finished) =>
           Cardinality(InFlight(r)') < Cardinality(InFlight(r))
      /\ all => InFlight(r)' = {}
      /\ (\A c \in InFlight(r) : task[r][c].pc \in Finished) => InFlight(r)' = {}
  BY <1>1, DropInFlight
<1>4. Cardinality(InFlight(r)) \in Nat /\ Cardinality(InFlight(r)') \in Nat
      /\ 2 * ChunkConcurrency \in Nat
  BY <1>3, Consts, InFlightFinite, FS_Subset, FS_CardinalityType
<1>5. run[r].pc \in {"loop", "drain", "gather"}
  BY DEF ProducerGoes
<1>6. RunInv'
  <2>1. ASSUME NEW q \in Attempts, q # r PROVE RunOK(q)'
    BY <1>2, <1>3, <2>1, Consts DEF IInv, RunInv, RunOK
  <2>2. RunOK(r) /\ arq[r] = "queued" /\ up["worker"] = "up"
    BY <1>5 DEF IInv, RunInv, RunOK
  <2>3. /\ Cardinality(InFlight(r)') <= 2 * ChunkConcurrency
        /\ (\E c \in Chunks : task[r][c].pc \in Finished) =>
             Cardinality(InFlight(r)') < 2 * ChunkConcurrency
    BY <1>3, <1>4, <2>2 DEF RunOK
  <2>4. ASSUME Return(r) PROVE RunOK(r)'
    BY <1>2, <2>3, <2>4, Consts DEF RunOK
  <2>5. ASSUME ~ Return(r) PROVE RunOK(r)'
    <3>1. run'[r].pc = pc /\ arq'[r] = arq[r] /\ ProducerGoes(r, pc, all)
      BY <1>2, <2>5, Consts
    <3>2. pc = "aftercheck" => InFlight(r)' = {}
      BY <1>3, <3>1 DEF ProducerGoes
    <3>3. pc = "loop" => Cardinality(InFlight(r)') < 2 * ChunkConcurrency
      BY <2>3, <3>1 DEF ProducerGoes
    <3>4. pc \in {"aftercheck", "fail", "loop"}
      BY <3>1 DEF ProducerGoes
    <3> QED
      BY <2>2, <2>3, <3>1, <3>2, <3>3, <3>4 DEF RunOK
  <2> QED
    BY <2>1, <2>4, <2>5 DEF RunInv
<1>7. RetryInv'
  BY DEF IInv, RetryInv
<1>8. First'
  <2> SUFFICES ASSUME ~ RecoveryMayFail, job.retries = 0
               PROVE (Alone /\ StatusInv /\ LoopInv /\ TaskInv)'
    BY DEF First
  <2>1. Alone /\ StatusInv /\ LoopInv /\ TaskInv
    BY DEF IInv, First
  <2>2. r = 0
    BY <1>5, <2>1 DEF Alone
  <2>3. Alone'
    BY <1>2, <2>1, <2>2, Consts DEF Alone, Drops
  <2>4. job.status \notin {"queued", "completed"}
    BY <1>5, <2>1, <2>2 DEF StatusInv
  <2>5. /\ run'[0].pc = IF Return(0) THEN "idle" ELSE pc
        /\ Return(0) => arq'[0] = "done"
        /\ ~ Return(0) => run'[0].next = run[0].next /\ ProducerGoes(0, pc, all)
    BY <1>2, <2>2, Consts
  <2>6. StatusInv'
    BY <2>4, <2>5 DEF StatusInv, ProducerGoes
  <2>7. \A c \in Chunks : Accounted(c)' <=> Accounted(c)
    BY DEF Accounted
  <2>8. TaskInv'
    BY <2>1, <2>2, <2>7, Consts DEF TaskInv, Drops
  <2>9. \A c \in Chunks : task[0][c].pc = "none" => task'[0][c].pc = "none"
    BY <2>2 DEF Drops, InFlight, Working, Finished
  <2>10. ASSUME NEW c \in Chunks, ~ all, Pending(c), task[0][c].pc # "failed"
         PROVE  Pending(c)'
    BY <2>2, <2>10 DEF Pending, Drops, Working, Finished
  <2>11. ASSUME ~ Return(0), pc = "loop" PROVE LoopInv'
    <3>1. run'[0].pc = "loop" /\ run[0].pc = "drain" /\ run'[0].next = run[0].next
          /\ ~ all /\ \A c \in Chunks : task[0][c].pc # "failed"
      BY <2>2, <2>5, <2>11 DEF ProducerGoes
    <3> QED
      BY <2>1, <2>7, <2>9, <2>10, <3>1 DEF LoopInv
  <2>12. ASSUME ~ Return(0), pc = "aftercheck" PROVE LoopInv'
    <3>1. CASE job.status = "cancelled"
      BY <2>5, <2>12, <3>1 DEF LoopInv
    <3>2. CASE job.status # "cancelled"
      <4>1. /\ run[0].pc = "gather" /\ \A c \in InFlight(0) : task[0][c].pc \in Finished
            /\ \A c \in Chunks : task[0][c].pc # "failed"
        BY <2>2, <2>5, <2>12, <3>2 DEF ProducerGoes
      <4>2. \A c \in Chunks : ~ Pending(c)
        BY <4>1 DEF Pending, InFlight, Working, Finished
      <4>3. \A c \in Chunks : c < run[0].next
        <5>1. run[0].next > NChunks /\ run[0].next \in Int /\ NChunks \in Int
          BY <1>1, <2>1, <4>1, Consts DEF LoopInv, JobTypeOver, RunStateOver
        <5> QED
          BY <5>1 DEF Chunks
      <4>4. Covered
        BY <2>1, <3>2, <4>1, <4>2, <4>3 DEF LoopInv, Covered
      <4> QED
        BY <2>5, <2>7, <2>12, <4>4 DEF LoopInv, Covered
    <3> QED
      BY <3>1, <3>2
  <2>13. ASSUME Return(0) \/ pc = "fail" PROVE LoopInv'
    BY <2>5, <2>13 DEF LoopInv
  <2>14. LoopInv'
    BY <2>5, <2>11, <2>12, <2>13 DEF ProducerGoes
  <2> QED
    BY <2>3, <2>6, <2>8, <2>14
<1> QED
  BY <1>6, <1>7, <1>8

LEMMA CollectKeeps ==
    ASSUME IInv, NEW r \in Attempts,
           ProduceCancelled(r) \/ DrainTasks(r) \/ Gather(r)
    PROVE  IInv'
<1>1. /\ JobTypeOver(LoopPcs) /\ ~ sched /\ task \in [Attempts -> [Chunks -> Task]]
      /\ reviews \in [Chunks -> Nat] /\ errored \subseteq Chunks
      /\ UNCHANGED <<job, arq, sched, up, req, faults, reviews, errored>>
  BY Typing DEF IInv, ProduceCancelled, DrainTasks, Gather
<1>2. \E all \in BOOLEAN, pc \in {"loop", "fail", "aftercheck"} :
        Drops(r, all) /\ Goto(r, pc) /\ ProducerGoes(r, pc, all)
  <2>1. CASE ProduceCancelled(r)
    <3>1. Drops(r, TRUE)
      BY <1>1, <2>1, CancelDrops DEF ProduceCancelled
    <3>2. Goto(r, "aftercheck") /\ ProducerGoes(r, "aftercheck", TRUE)
      BY <2>1 DEF ProduceCancelled, ProducerGoes
    <3> QED
      BY <3>1, <3>2
  <2>2. CASE DrainTasks(r) /\ \E c \in Chunks : task[r][c].pc = "failed"
    <3>1. Drops(r, TRUE)
      BY <1>1, <2>2, CancelDrops DEF DrainTasks
    <3>2. Goto(r, "fail") /\ ProducerGoes(r, "fail", TRUE)
      BY <2>2 DEF DrainTasks, ProducerGoes
    <3> QED
      BY <3>1, <3>2
  <2>3. CASE DrainTasks(r) /\ ~ \E c \in Chunks : task[r][c].pc = "failed"
    <3>1. Drops(r, FALSE)
      BY <1>1, <2>3, CollectDrops DEF DrainTasks
    <3>2. Goto(r, "loop") /\ ProducerGoes(r, "loop", FALSE)
      BY <2>3 DEF DrainTasks, ProducerGoes
    <3> QED
      BY <3>1, <3>2
  <2>4. CASE Gather(r)
    <3> DEFINE pc == IF \E c \in Chunks : task[r][c].pc = "failed" THEN "fail" ELSE "aftercheck"
    <3>1. Drops(r, FALSE)
      BY <1>1, <2>4, CollectDrops DEF Gather
    <3>2. Goto(r, pc) /\ ProducerGoes(r, pc, FALSE)
      BY <2>4 DEF Gather, ProducerGoes
    <3> QED
      BY <3>1, <3>2
  <2> QED
    BY <2>1, <2>2, <2>3, <2>4
<1>3. PICK all \in BOOLEAN, pc \in {"loop", "fail", "aftercheck"} :
        Drops(r, all) /\ Goto(r, pc) /\ ProducerGoes(r, pc, all)
  BY <1>2
<1>4. TypeOK'
  <2>1. run' \in [Runs -> RunStateOver(LoopPcs)]
    BY <1>1, <1>3, Consts, GotoType DEF LoopPcs
  <2>2. JobTypeOver(LoopPcs)'
    BY <1>1, <2>1 DEF JobTypeOver
  <2> QED
    BY <1>1, <1>3, <2>2, TypingNext DEF Drops
<1>5. RunInv' /\ RetryInv' /\ First'
  BY <1>1, <1>3, ProducerKeeps
<1> QED
  BY <1>4, <1>5 DEF IInv

LEMMA StallKeeps ==
    ASSUME IInv, NEW r \in Attempts, ProducerStall(r)
    PROVE  IInv'
<1>1. /\ JobTypeOver(LoopPcs) /\ ~ sched /\ task \in [Attempts -> [Chunks -> Task]]
      /\ reviews \in [Chunks -> Nat] /\ errored \subseteq Chunks
      /\ Stall(r) /\ r \in Runs /\ Return(r)
      /\ UNCHANGED <<job, sched, up, req, reviews, errored>>
  BY Typing, Consts DEF IInv, ProducerStall, Stall
<1>2. JobTypeOver(LoopPcs)'
  BY <1>1, FaultStepType
<1>3. CASE run[r].pc = "gather"
  <2>1. Drops(r, TRUE)
    BY <1>1, <1>3, CancelDrops DEF ProducerStall
  <2>2. TypeOK'
    BY <1>1, <1>2, <2>1, TypingNext DEF Drops
  <2>3. RunInv' /\ RetryInv' /\ First'
    BY <1>1, <1>3, <2>1, ProducerKeeps
  <2> QED
    BY <2>2, <2>3 DEF IInv
<1>4. CASE run[r].pc # "gather"
  <2>1. UNCHANGED chunkVars
    BY <1>4 DEF ProducerStall, chunkVars
  <2>2. TypeOK'
    BY <1>1, <1>2, <2>1, TypingNext DEF chunkVars
  <2>3. RunInv' /\ RetryInv' /\ First'
    BY <1>1, <2>1, JobStepKeeps
  <2> QED
    BY <2>2, <2>3 DEF IInv
<1> QED
  BY <1>3, <1>4

LEMMA PipelineTyped ==
    ASSUME NEW r PROVE Pipeline(r) \in 0..ChunkConcurrency - 1
<1> DEFINE made == {c \in Chunks : task[r][c].pc # "none"}
<1>1. Cardinality(made) \in Nat
  BY Consts, FS_Subset, FS_CardinalityType
<1> HIDE DEF made
<1>2. Cardinality(made) % ChunkConcurrency \in 0..ChunkConcurrency - 1
  BY <1>1, Consts
<1> QED
  BY <1>2 DEF Pipeline, made

\* A task more in flight, for which the last drain left room.
LEMMA ProduceKeeps ==
    ASSUME IInv, NEW r \in Attempts, Produce(r)
    PROVE  IInv'
<1>0. PICK n \in Chunks : n = run[r].next
  BY DEF Produce
<1> DEFINE pc == IF Drain(r) THEN "drain" ELSE "loop"
<1> DEFINE t == [NoTask EXCEPT !.pc = "queued", !.pipe = Pipeline(r)]
<1>1. /\ JobTypeOver(LoopPcs) /\ ~ sched /\ task \in [Attempts -> [Chunks -> Task]]
      /\ reviews \in [Chunks -> Nat] /\ errored \subseteq Chunks
      /\ run[r].pc = "loop" /\ job.status # "cancelled"
      /\ UNCHANGED <<job, arq, sched, up, req, faults, reviews, errored>>
  BY Typing DEF IInv, Produce
<1>2. task' = [task EXCEPT ![r][n] = t]
  BY <1>0 DEF Produce
<1>3. run' = [run EXCEPT ![r].next = n + 1, ![r].pc = pc]
  BY <1>0 DEF Produce
<1>4. t \in Task /\ t.pc = "queued"
  BY NoTaskTyped, PipelineTyped DEF Task
<1> HIDE DEF t
<1>5. n \in Int /\ n >= 1 /\ n <= NChunks /\ n + 1 \in 0..NChunks + 1
  BY Consts DEF Chunks
<1>6. /\ task' \in [Attempts -> [Chunks -> Task]] /\ task'[r][n] = t
      /\ \A q \in Attempts, d \in Chunks : q # r \/ d # n => task'[q][d] = task[q][d]
  BY <1>1, <1>2, <1>4, TaskSet
<1>7. pc \in {"loop", "drain"} /\ (Drain(r) <=> pc = "drain")
  OBVIOUS
<1> HIDE DEF pc
<1>8. /\ run' \in [Runs -> RunStateOver(LoopPcs)]
      /\ run'[r].pc = pc /\ run'[r].next = n + 1
      /\ \A q \in Attempts : q # r => run'[q] = run[q]
  BY <1>1, <1>3, <1>5, <1>7, Consts DEF JobTypeOver, RunStateOver, LoopPcs
<1>9. TypeOK'
  <2>1. JobTypeOver(LoopPcs)'
    BY <1>1, <1>8 DEF JobTypeOver
  <2> QED
    BY <1>1, <1>6, <2>1, TypingNext
<1>10. RunInv'
  <2>1. ASSUME NEW q \in Attempts, q # r PROVE RunOK(q)'
    <3>1. InFlight(q)' = InFlight(q)
      BY <1>6, <2>1 DEF InFlight
    <3> QED
      BY <1>1, <1>8, <2>1, <3>1 DEF IInv, RunInv, RunOK
  <2>2. RunOK(r)
    BY DEF IInv, RunInv
  <2>3. InFlight(r)' \subseteq InFlight(r) \cup {n}
    BY <1>6 DEF InFlight
  <2>4. /\ Cardinality(InFlight(r)) \in Nat /\ 2 * ChunkConcurrency \in Nat
        /\ Cardinality(InFlight(r) \cup {n}) <= Cardinality(InFlight(r)) + 1
        /\ IsFiniteSet(InFlight(r) \cup {n})
    <3>1. Cardinality(InFlight(r)) \in Nat /\ IsFiniteSet(InFlight(r))
      BY InFlightFinite
    <3>2. /\ IsFiniteSet(InFlight(r) \cup {n})
          /\ \/ Cardinality(InFlight(r) \cup {n}) = Cardinality(InFlight(r))
             \/ Cardinality(InFlight(r) \cup {n}) = Cardinality(InFlight(r)) + 1
      BY <3>1, FS_AddElement
    <3> QED
      BY <3>1, <3>2, Consts
  <2>5. /\ Cardinality(InFlight(r)') \in Nat
        /\ Cardinality(InFlight(r)') <= Cardinality(InFlight(r) \cup {n})
        /\ Cardinality(InFlight(r) \cup {n}) \in Nat
    BY <2>3, <2>4, FS_Subset, FS_CardinalityType
  <2>6. Cardinality(InFlight(r)') <= Cardinality(InFlight(r)) + 1
    BY <2>4, <2>5
  <2>7. Cardinality(InFlight(r)) < 2 * ChunkConcurrency
    BY <1>1, <2>2 DEF RunOK
  <2>8. /\ Cardinality(InFlight(r)') <= 2 * ChunkConcurrency
        /\ pc = "loop" => Cardinality(InFlight(r)') < 2 * ChunkConcurrency
    BY <1>7, <2>4, <2>5, <2>6, <2>7 DEF Drain
  <2>9. RunOK(r)'
    BY <1>1, <1>7, <1>8, <2>2, <2>8 DEF RunOK
  <2> QED
    BY <2>1, <2>9 DEF RunInv
<1>11. RetryInv'
  BY <1>1 DEF IInv, RetryInv
<1>12. First'
  <2> SUFFICES ASSUME ~ RecoveryMayFail, job.retries = 0
               PROVE (Alone /\ StatusInv /\ LoopInv /\ TaskInv)'
    BY <1>1 DEF First
  <2>1. Alone /\ StatusInv /\ LoopInv /\ TaskInv
    BY DEF IInv, First
  <2>2. r = 0
    BY <1>1, <2>1 DEF Alone
  <2>3. Alone'
    BY <1>1, <1>6, <1>8, <2>1, <2>2 DEF Alone
  <2>4. job.status \notin {"queued", "completed"}
    BY <1>1, <2>1, <2>2 DEF StatusInv
  <2>5. run'[0].pc \in {"loop", "drain"} /\ run'[0].next = n + 1
    BY <1>7, <1>8, <2>2
  <2>6. StatusInv'
    BY <1>1, <2>4, <2>5 DEF StatusInv
  <2>7. \A c \in Chunks : c >= n => ~ Accounted(c) /\ task[0][c].pc = "none"
    BY <1>0, <1>1, <2>1, <2>2 DEF LoopInv
  <2>8. \A c \in Chunks : c < n => Pending(c) \/ Accounted(c)
    BY <1>0, <1>1, <2>1, <2>2 DEF LoopInv
  <2>9. \A c \in Chunks : c # n =>
          /\ task'[0][c] = task[0][c]
          /\ Pending(c)' <=> Pending(c)
          /\ Accounted(c)' <=> Accounted(c)
    BY <1>1, <1>6, <2>2, Consts DEF Pending, Accounted
  <2>10. Pending(n)' /\ ~ Accounted(n)
    BY <1>4, <1>5, <1>6, <2>2, <2>7 DEF Pending
  <2>11. \A c \in Chunks : c >= n + 1 => ~ Accounted(c)' /\ task'[0][c].pc = "none"
    BY <1>1, <1>5, <2>7, <2>9 DEF Chunks
  <2>12. \A c \in Chunks : c < n + 1 => Pending(c)' \/ Accounted(c)'
    <3> SUFFICES ASSUME NEW c \in Chunks, c < n + 1 PROVE Pending(c)' \/ Accounted(c)'
      OBVIOUS
    <3>1. c = n \/ c < n
      BY <1>5, Consts
    <3> QED
      BY <2>8, <2>9, <2>10, <3>1
  <2>13. LoopInv'
    BY <2>5, <2>11, <2>12 DEF LoopInv
  <2>14. TaskInv'
    <3> SUFFICES ASSUME NEW c \in Chunks
                 PROVE  /\ reviews[c] <= 1
                        /\ task'[0][c].pc \in {"queued", "infer"} => ~ Accounted(c)
                        /\ task'[0][c].pc \in {"progress", "commit"} =>
                             c \notin errored /\ (task'[0][c].ok => reviews[c] > 0)
      BY <1>1 DEF TaskInv, Accounted
    <3>1. CASE c = n
      BY <1>4, <1>6, <2>1, <2>2, <2>10, <3>1, Consts DEF TaskInv
    <3>2. CASE c # n
      BY <2>1, <2>9, <3>2 DEF TaskInv
    <3> QED
      BY <3>1, <3>2
  <2> QED
    BY <2>3, <2>6, <2>13, <2>14
<1> QED
  BY <1>9, <1>10, <1>11, <1>12 DEF IInv

\* The file is read to its end: what is in flight is waited for.
LEMMA LoopEndsKeeps ==
    ASSUME IInv, NEW r \in Attempts, LoopEnds(r)
    PROVE  RunInv' /\ RetryInv' /\ First'
<1>1. /\ JobTypeOver(LoopPcs) /\ run[r].pc = "loop" /\ run[r].next > NChunks
      /\ UNCHANGED <<job, arq, sched, up, req, faults, chunkVars>>
  BY Typing DEF IInv, LoopEnds
<1>2. \A q \in Runs : /\ run'[q].pc = IF q = r THEN "gather" ELSE run[q].pc
                      /\ run'[q].next = run[q].next
  BY <1>1, GotoAt, Consts DEF LoopEnds
<1>3. RunInv'
  <2> SUFFICES ASSUME NEW q \in Attempts PROVE RunOK(q)'
    BY DEF RunInv
  <2>1. InFlight(q)' = InFlight(q) /\ RunOK(q)
    BY <1>1, SameChunks DEF IInv, RunInv
  <2>2. UNCHANGED <<arq, up>> /\ (q = r => run[q].pc = "loop" /\ run'[q].pc = "gather")
        /\ (q # r => run'[q].pc = run[q].pc)
    BY <1>1, <1>2, Consts
  <2> QED
    BY <2>1, <2>2 DEF RunOK
<1>4. RetryInv'
  BY <1>1 DEF IInv, RetryInv
<1>5. First'
  <2> SUFFICES ASSUME ~ RecoveryMayFail, job.retries = 0
               PROVE (Alone /\ StatusInv /\ LoopInv /\ TaskInv)'
    BY <1>1 DEF First
  <2>1. Alone /\ StatusInv /\ LoopInv /\ TaskInv
    BY DEF IInv, First
  <2>2. r = 0
    BY <1>1, <2>1 DEF Alone
  <2>3. run'[0].pc = "gather" /\ run'[0].next = run[0].next
    BY <1>2, <2>2, Consts
  <2>4. Alone'
    BY <1>1, <1>2, <2>1, <2>2, Consts DEF Alone, chunkVars
  <2>5. StatusInv'
    BY <1>1, <2>1, <2>2, <2>3 DEF StatusInv
  <2>6. LoopInv'
    BY <1>1, <2>1, <2>2, <2>3, SameChunks DEF LoopInv
  <2> QED
    BY <1>1, <2>1, <2>4, <2>5, <2>6, SameChunks
<1> QED
  BY <1>3, <1>4, <1>5

\* The steps that leave the chunks alone, with what they keep of the types.
LEMMA QuietStepKeeps ==
    ASSUME IInv, UNCHANGED chunkVars,
           \/ \E u \in Users : CancelRead(u) \/ RetryRead(u) \/ ApiWrite(u)
           \/ \E r \in Attempts : Deliver(r) \/ JobStep(r) \/ LoopEnds(r) \/ AfterCheck(r)
                                  \/ ProducerAbort(r)
           \/ Restart("worker") \/ RecoverRead \/ RecoverWrite \/ RecoverFails
    PROVE  IInv'
<1>1. /\ JobTypeOver(LoopPcs) /\ ~ sched /\ task \in [Attempts -> [Chunks -> Task]]
      /\ reviews \in [Chunks -> Nat] /\ errored \subseteq Chunks
      /\ UNCHANGED <<task, reviews, errored>>
  BY Typing DEF IInv, chunkVars
<1>2. SUFFICES JobTypeOver(LoopPcs)' /\ ~ sched' /\ RunInv' /\ RetryInv' /\ First'
  BY <1>1, TypingNext DEF IInv
<1>3. ASSUME NEW u \in Users, CancelRead(u) \/ RetryRead(u) \/ ApiWrite(u)
      PROVE  JobTypeOver(LoopPcs)' /\ ~ sched' /\ RunInv' /\ RetryInv' /\ First'
  <2>1. JobTypeOver(LoopPcs)'
    BY <1>1, <1>3, ApiType
  <2>2. ~ sched'
    BY <1>1, <1>3 DEF CancelRead, RetryRead, ApiWrite, CancelWrite, Unschedule, RetryWrite,
       Dispatch
  <2> QED
    BY <1>3, <2>1, <2>2, ApiKeeps
<1>4. ASSUME NEW r \in Attempts, Deliver(r)
      PROVE  JobTypeOver(LoopPcs)' /\ ~ sched' /\ RunInv' /\ RetryInv' /\ First'
  BY <1>1, <1>4, DeliveryType, DeliverKeeps DEF Deliver
<1>5. ASSUME NEW r \in Attempts, JobStep(r)
      PROVE  JobTypeOver(LoopPcs)' /\ ~ sched' /\ RunInv' /\ RetryInv' /\ First'
  <2>1. JobTypeOver(LoopPcs)'
    BY <1>1, <1>5, JobStepType, Consts
  <2>2. ~ sched'
    BY <1>1, <1>5 DEF JobStep, StartRead, StartWrite, CompleteRead, CompleteWrite, FailRead,
       FailWrite
  <2> QED
    BY <1>5, <2>1, <2>2, JobStepKeeps
<1>6. ASSUME NEW r \in Attempts, ProducerAbort(r)
      PROVE  JobTypeOver(LoopPcs)' /\ ~ sched' /\ RunInv' /\ RetryInv' /\ First'
  <2>1. Abort(r) /\ r \in Runs
    BY <1>6, Consts DEF ProducerAbort
  <2>2. JobTypeOver(LoopPcs)' /\ ~ sched'
    BY <1>1, <2>1, FaultStepType DEF Abort
  <2> QED
    BY <2>1, <2>2, JobStepKeeps
<1>7. ASSUME NEW r \in Attempts, LoopEnds(r)
      PROVE  JobTypeOver(LoopPcs)' /\ ~ sched' /\ RunInv' /\ RetryInv' /\ First'
  <2>1. run' \in [Runs -> RunStateOver(LoopPcs)]
    BY <1>1, <1>7, GotoType, Consts DEF LoopEnds, LoopPcs
  <2>2. UNCHANGED <<job, arq, sched, up, req, faults>>
    BY <1>7 DEF LoopEnds
  <2>3. JobTypeOver(LoopPcs)' /\ ~ sched'
    BY <1>1, <2>1, <2>2 DEF JobTypeOver
  <2> QED
    BY <1>7, <2>3, LoopEndsKeeps
<1>8. ASSUME NEW r \in Attempts, AfterCheck(r)
      PROVE  JobTypeOver(LoopPcs)' /\ ~ sched' /\ RunInv' /\ RetryInv' /\ First'
  <2>1. UNCHANGED <<job, sched, up, req, faults>> /\ run[r].pc = "aftercheck" /\ r \in Runs
    BY <1>8, Consts DEF AfterCheck
  <2>2. CASE Return(r)
    <3>1. JobTypeOver(LoopPcs)'
      BY <1>1, <2>1, <2>2, ReturnType DEF JobTypeOver
    <3> QED
      BY <1>1, <2>1, <2>2, <3>1, ReturnKeeps
  <2>3. CASE job.status # "cancelled" /\ Goto(r, "complete") /\ UNCHANGED arq
    <3>1. JobTypeOver(LoopPcs)'
      BY <1>1, <2>1, <2>3, GotoType DEF JobTypeOver
    <3> QED
      BY <1>1, <2>1, <2>3, <3>1, GotoKeeps
  <2> QED
    BY <1>8, <2>2, <2>3 DEF AfterCheck
<1>9. ASSUME Restart("worker") \/ RecoverRead \/ RecoverWrite \/ RecoverFails
      PROVE  JobTypeOver(LoopPcs)' /\ ~ sched' /\ RunInv' /\ RetryInv' /\ First'
  <2>1. JobTypeOver(LoopPcs)'
    BY <1>1, <1>9, FaultStepType DEF Procs
  <2>2. ~ sched'
    BY <1>1, <1>9 DEF Restart, RecoverRead, RecoverWrite, RecoverFails
  <2> QED
    BY <1>9, <2>1, <2>2, RecoveryKeeps
<1> QED
  BY <1>3, <1>4, <1>5, <1>6, <1>7, <1>8, <1>9
-----------------------------------------------------------------------------
LEMMA StepInv == IInv /\ [Next]_vars => IInv'
<1> SUFFICES ASSUME IInv, [Next]_vars PROVE IInv'
  OBVIOUS
<1>1. CASE UNCHANGED vars
  <2>1. UNCHANGED <<jobVars, chunkVars>>
    BY <1>1 DEF vars, chunkVars
  <2>2. TypeOK'
    BY <2>1, Typing, TypingNext, JobIdleType DEF IInv, jobVars, chunkVars
  <2>3. RunInv' /\ RetryInv'
    BY <2>1, SameChunks DEF IInv, RunInv, RunOK, RetryInv, jobVars
  <2>4. Alone' <=> Alone
    BY <2>1 DEF Alone, jobVars, chunkVars
  <2>5. (StatusInv' <=> StatusInv) /\ (LoopInv' <=> LoopInv)
    BY <2>1, SameChunks, Consts DEF StatusInv, LoopInv, jobVars, chunkVars
  <2>6. First'
    BY <2>1, <2>4, <2>5, SameChunks DEF IInv, First, jobVars
  <2> QED
    BY <2>2, <2>3, <2>6 DEF IInv
<1>2. CASE \E u \in Users :
        (CancelRead(u) \/ RetryRead(u) \/ ApiWrite(u)) /\ UNCHANGED chunkVars
  BY <1>2, QuietStepKeeps
<1>3. ASSUME NEW r \in Attempts,
             \/ (Deliver(r) \/ JobStep(r)) /\ UNCHANGED chunkVars
             \/ LoopEnds(r) \/ AfterCheck(r) \/ ProducerAbort(r)
      PROVE  IInv'
  <2>1. UNCHANGED chunkVars
    BY <1>3 DEF LoopEnds, AfterCheck, ProducerAbort
  <2> QED
    BY <1>3, <2>1, QuietStepKeeps
<1>4. ASSUME NEW r \in Attempts, Produce(r) PROVE IInv'
  BY <1>4, ProduceKeeps
<1>5. ASSUME NEW r \in Attempts, ProduceCancelled(r) \/ DrainTasks(r) \/ Gather(r) PROVE IInv'
  BY <1>5, CollectKeeps
<1>6. ASSUME NEW r \in Attempts, ProducerStall(r) PROVE IInv'
  BY <1>6, StallKeeps
<1>7. ASSUME NEW r \in Attempts, NEW c \in Chunks, TaskStep(r, c) PROVE IInv'
  BY <1>7, TaskStartKeeps, TaskPersistKeeps, TaskFaultKeeps, TaskProgressReadKeeps,
     TaskProgressWriteKeeps DEF TaskStep
<1>8. CASE WorkerCrash
  BY <1>8, CrashKeeps
<1>9. CASE (Restart("worker") \/ RecoverRead \/ RecoverWrite \/ RecoverFails) /\ UNCHANGED chunkVars
  BY <1>9, QuietStepKeeps
<1> QED
  BY <1>1, <1>2, <1>3, <1>4, <1>5, <1>6, <1>7, <1>8, <1>9 DEF Next

LEMMA Inductive == Spec => []IInv
BY InitInv, StepInv, PTL DEF Spec
-----------------------------------------------------------------------------
\* The variables keep their types under every step of the parallel loop, the
\* pipeline a chunk gets being one of the pool's (_select_pipeline).
THEOREM TypeCorrect == Spec => []TypeOK
<1>1. IInv => TypeOK
  BY DEF IInv
<1> QED
  BY <1>1, Inductive, PTL

\* Whatever finishes, fails or stalls, no run ever holds more than twice the
\* concurrency of chunks in memory (_run_chunks_parallel).
THEOREM MemoryBounded == Spec => []InFlightBounded
<1>1. IInv => InFlightBounded
  BY DEF IInv, RunInv, RunOK, InFlightBounded
<1> QED
  BY <1>1, Inductive, PTL

\* When the first attempt completes its job nothing of it still runs: every
\* task has ended and been collected, also after crashes and redeliveries.
THEOREM QuietCompletion == ASSUME ~ RecoveryMayFail PROVE Spec => []CompletionIsQuiet
<1>1. IInv => CompletionIsQuiet
  <2> SUFFICES ASSUME IInv, job.retries = 0, job.status = "completed", NEW r \in Attempts
               PROVE  InFlight(r) = {}
    BY DEF CompletionIsQuiet
  <2>1. Alone /\ StatusInv
    BY DEF IInv, First
  <2>2. r # 0 => \A c \in Chunks : task[r][c].pc = "none"
    BY <2>1 DEF Alone
  <2> QED
    BY <2>1, <2>2 DEF StatusInv, InFlight, Working, Finished
<1> QED
  BY <1>1, Inductive, PTL

\* A job completed by its first attempt has every chunk stored or counted as
\* failed, whatever its sibling tasks and the cancel requests did.
THEOREM FirstAttemptCovers == ASSUME ~ RecoveryMayFail PROVE Spec => []FirstAttemptCoversAllRows
<1>1. IInv => FirstAttemptCoversAllRows
  BY DEF IInv, First, StatusInv, Covered, FirstAttemptCoversAllRows
<1> QED
  BY <1>1, Inductive, PTL

\* The first attempt stores no chunk twice, also when arq redelivers its task
\* after a crash: recovery has failed the row before the run can claim it.
THEOREM FirstAttemptWrites == ASSUME ~ RecoveryMayFail PROVE Spec => []FirstAttemptWritesOnce
<1>1. IInv => FirstAttemptWritesOnce
  BY DEF IInv, First, TaskInv, FirstAttemptWritesOnce
<1> QED
  BY <1>1, Inductive, PTL
-----------------------------------------------------------------------------
(* The first attempt and the accounting of rows.  It starts at the first     *)
(* row, so it resumes after none whatever its own checkpoint says; what a    *)
(* retry makes of that checkpoint is not claimed (FailedJobResumable).       *)

AccountedRows == {c \in Chunks : Accounted(c)}

FirstAttempt == INSTANCE RowAccounting WITH
    N          <- NChunks,
    accounted  <- AccountedRows,
    checkpoint <- 0,
    completed  <- job.status = "completed"

LEMMA InitAccounting == Init => FirstAttempt!Init
<1> SUFFICES ASSUME Init PROVE FirstAttempt!Init
  OBVIOUS
<1>1. AccountedRows = {}
  BY DEF Init, Accounted, AccountedRows
<1>2. job.status # "completed"
  BY DEF Init, JobInit, NewRow
<1> QED
  BY <1>1, <1>2 DEF FirstAttempt!Init

\* A chunk's task accounts for that chunk at most; no other step does, and none
\* takes one back.
LEMMA AccountedStep ==
    ASSUME TypeOK, [Next]_vars
    PROVE  \/ AccountedRows' = AccountedRows
           \/ job'.status = job.status
              /\ \E c \in Chunks : AccountedRows' = AccountedRows \cup {c}
<1>1. CASE UNCHANGED <<reviews, errored>>
  BY <1>1 DEF AccountedRows, Accounted
<1>2. ASSUME NEW r \in Attempts, NEW c \in Chunks, TaskPersist(r, c)
      PROVE  job'.status = job.status /\ AccountedRows' = AccountedRows \cup {c}
  BY <1>2 DEF TaskPersist, jobVars, AccountedRows, Accounted, TypeOK
<1>3. ASSUME NEW r \in Attempts, NEW c \in Chunks, TaskProgressWrite(r, c)
      PROVE  /\ job'.status = job.status
             /\ AccountedRows' = AccountedRows \/ AccountedRows' = AccountedRows \cup {c}
  <2>1. job'.status = job.status
    BY <1>3 DEF TaskProgressWrite, TypeOK, JobTypeOver, Row
  <2>2. reviews' = reviews /\ (errored' = errored \/ errored' = errored \cup {c})
    BY <1>3 DEF TaskProgressWrite
  <2>3. CASE errored' = errored
    BY <2>1, <2>2, <2>3 DEF AccountedRows, Accounted
  <2>4. CASE errored' = errored \cup {c}
    <3>1. AccountedRows' = AccountedRows \cup {c}
      BY <2>2, <2>4 DEF AccountedRows, Accounted
    <3> QED
      BY <2>1, <3>1
  <2> QED
    BY <2>2, <2>3, <2>4
<1>4. ASSUME NEW r \in Attempts, NEW c \in Chunks,
             TaskStart(r, c) \/ TaskInferenceFails(r, c) \/ TaskProgressRead(r, c) \/ TaskAbort(r, c)
      PROVE  UNCHANGED <<reviews, errored>>
  BY <1>4 DEF TaskStart, TaskInferenceFails, TaskProgressRead, TaskAbort
<1>5. ASSUME NEW r \in Attempts,
             \/ Produce(r) \/ ProduceCancelled(r) \/ DrainTasks(r) \/ LoopEnds(r)
             \/ Gather(r) \/ AfterCheck(r) \/ ProducerAbort(r) \/ ProducerStall(r)
      PROVE  UNCHANGED <<reviews, errored>>
  BY <1>5 DEF Produce, ProduceCancelled, DrainTasks, LoopEnds, Gather, AfterCheck,
     ProducerAbort, ProducerStall, chunkVars
<1>6. WorkerCrash \/ UNCHANGED chunkVars \/ UNCHANGED vars => UNCHANGED <<reviews, errored>>
  BY DEF WorkerCrash, chunkVars, vars
<1> QED
  BY <1>1, <1>2, <1>3, <1>4, <1>5, <1>6 DEF Next, TaskStep

LEMMA NextAccounting ==
    ASSUME ~ RecoveryMayFail, IInv, IInv', [Next]_vars, (job.retries = 0)'
    PROVE  [FirstAttempt!Next]_(FirstAttempt!accountingVars)
<1>0. TypeOK /\ FirstAttempt!Rows = Chunks
  BY DEF IInv, FirstAttempt!Rows, Chunks
<1>1. CASE AccountedRows' = AccountedRows
  <2>1. CASE job'.status = "completed" /\ job.status # "completed"
    <3>1. AccountedRows' = Chunks
      BY <2>1 DEF IInv, First, StatusInv, Covered, AccountedRows
    <3>2. FirstAttempt!Complete
      BY <1>0, <1>1, <2>1, <3>1 DEF FirstAttempt!Complete
    <3> QED
      BY <3>2 DEF FirstAttempt!Next
  <2>2. CASE job'.status # "completed" /\ job.status = "completed"
    BY <1>1, <2>2 DEF FirstAttempt!Next, FirstAttempt!Reopen
  <2>3. CASE (job'.status = "completed") = (job.status = "completed")
    BY <1>1, <2>3 DEF FirstAttempt!accountingVars
  <2> QED
    BY <2>1, <2>2, <2>3
<1>2. ASSUME NEW c \in Chunks, AccountedRows' = AccountedRows \cup {c}, job'.status = job.status
      PROVE  FirstAttempt!Next
  <2>1. FirstAttempt!Account(c)
    BY <1>2 DEF FirstAttempt!Account
  <2> QED
    BY <1>0, <2>1 DEF FirstAttempt!Next
<1> QED
  BY <1>0, <1>1, <1>2, AccountedStep

\* As long as nobody has retried the job, the parallel loop implements the same
\* accounting of rows as the serial one: chunks finish in any order, and still
\* no accounted row is taken back, and completed means every row.
THEOREM FirstAttemptImplements ==
    ASSUME ~ RecoveryMayFail PROVE Spec /\ [](job.retries = 0) => FirstAttempt!Spec
BY InitAccounting, NextAccounting, Inductive, PTL DEF Spec, FirstAttempt!Spec
-----------------------------------------------------------------------------
(* What a retry of the first attempt can leave out.                          *)

\* t is the last chunk that was given a task, or 0: neither checkpoint nor task
\* is past it, and when it was given one the chunks missing below it were in
\* flight.
Last(t) ==
    /\ job.progress.ckpt <= t
    /\ \A c \in Chunks : task[0][c].pc # "none" => c <= t
    /\ Cardinality(MissingBelow(t)) < 2 * ChunkConcurrency
    /\ run[0].pc \in {"start", "loop", "drain"} => t < run[0].next

GapInv == job.retries = 0 => \E t \in 0..NChunks : Last(t)

LEMMA MissingFinite ==
    ASSUME NEW n
    PROVE  /\ MissingBelow(n) \subseteq Chunks /\ IsFiniteSet(MissingBelow(n))
           /\ Cardinality(MissingBelow(n)) \in Nat
BY Consts, FS_Subset, FS_CardinalityType DEF MissingBelow

\* Fewer chunks are missing as time goes on.
LEMMA MissingShrinks ==
    ASSUME TypeOK, [Next]_vars, NEW t
    PROVE  /\ Cardinality(MissingBelow(t)') \in Nat
           /\ Cardinality(MissingBelow(t)') <= Cardinality(MissingBelow(t))
<1>1. AccountedRows \subseteq AccountedRows'
  BY AccountedStep
<1>2. ASSUME NEW c \in Chunks, Accounted(c) PROVE Accounted(c)'
  BY <1>1, <1>2 DEF AccountedRows
<1>3. MissingBelow(t)' \subseteq MissingBelow(t)
  BY <1>2 DEF MissingBelow
<1> QED
  BY <1>3, MissingFinite, FS_Subset, FS_CardinalityType

\* Neither checkpoint nor tasks go past t: it is still the last one.
LEMMA LastStays ==
    ASSUME TypeOK, [Next]_vars, NEW t \in 0..NChunks, Last(t), job'.progress.ckpt <= t,
           \A c \in Chunks : task'[0][c].pc # "none" => c <= t,
           run'[0].pc \in {"start", "loop", "drain"} => t < run'[0].next
    PROVE  Last(t)'
<1>1. Cardinality(MissingBelow(t)) \in Nat /\ 2 * ChunkConcurrency \in Nat
  BY MissingFinite, Consts
<1> QED
  BY <1>1, MissingShrinks DEF Last

LEMMA NoneMissing == Cardinality(MissingBelow(0)) < 2 * ChunkConcurrency
<1>1. MissingBelow(0) = {}
  BY DEF MissingBelow, Chunks
<1> QED
  BY <1>1, FS_EmptySet, Consts

LEMMA InitGap == Init => GapInv
<1> SUFFICES ASSUME Init PROVE Last(0)
  BY Consts DEF GapInv
<1>2. job.progress.ckpt = 0 /\ run[0].pc = "idle"
  BY Consts DEF Init, JobInit, NewRow, NoProgress, NoRun, RunAt
<1>3. \A c \in Chunks : task[0][c].pc = "none"
  BY Consts, NoTasksTyped DEF Init
<1> QED
  BY <1>2, <1>3, NoneMissing DEF Last

\* Only StartRead lets a run begin.
LEMMA Begins ==
    ASSUME JobTypeOver(LoopPcs), JobNext, NEW q \in Runs,
           run[q].pc = "wait", run'[q].pc \in {"start", "loop"}
    PROVE  StartRead(q)
<1>0. run \in [Runs -> RunStateOver(LoopPcs)]
  BY DEF JobTypeOver
<1>1. ASSUME NEW r, Return(r) PROVE FALSE
  BY <1>0, <1>1 DEF Return, NoRun, RunAt
<1>2. ASSUME NEW r \in Runs, NEW pc, Goto(r, pc), pc \notin {"start", "loop"} \/ run[r].pc # "wait"
      PROVE  FALSE
  BY <1>0, <1>2 DEF Goto, RunStateOver
<1>3. ASSUME UNCHANGED run PROVE FALSE
  BY <1>3
<1>4. ASSUME NEW r \in Runs, StartRead(r), r # q PROVE FALSE
  BY <1>0, <1>1, <1>4 DEF StartRead
<1>5. ASSUME NEW r \in Runs, JobStep(r), ~ StartRead(r) PROVE FALSE
  BY <1>1, <1>2, <1>5 DEF JobStep, StartWrite, CompleteRead, CompleteWrite, FailRead, FailWrite
<1>6. ASSUME NEW r \in Runs, Abort(r) \/ Stall(r) PROVE FALSE
  BY <1>1, <1>2, <1>6 DEF Abort, Stall
<1>7. ASSUME NEW a \in Attempts, Deliver(a) PROVE FALSE
  BY <1>2, <1>7, Consts DEF Deliver
<1>8. ASSUME FireInProcess \/ SkipInProcess PROVE FALSE
  BY <1>2, <1>3, <1>8 DEF FireInProcess, SkipInProcess, Runs
<1>9. ASSUME NEW p \in Procs, Crash(p) PROVE FALSE
  BY <1>0, <1>9 DEF Crash, NoRun, RunAt
<1>10. ASSUME NEW u \in Users, CancelRead(u) \/ RetryRead(u) \/ ApiWrite(u) \/ DispatchInProcess(u)
       PROVE  FALSE
  BY <1>3, <1>10 DEF CancelRead, RetryRead, ApiWrite, CancelWrite, Unschedule, RetryWrite,
     Dispatch, DispatchInProcess
<1>11. ASSUME (\E p \in Procs : Restart(p)) \/ RecoverRead \/ RecoverWrite \/ RecoverFails
      PROVE FALSE
  BY <1>3, <1>11 DEF Restart, RecoverRead, RecoverWrite, RecoverFails
<1> QED
  BY <1>4, <1>5, <1>6, <1>7, <1>8, <1>9, <1>10, <1>11 DEF JobNext

\* The job's own steps give no chunk a task and move no checkpoint; a run that
\* starts for the first time finds neither.
LEMMA JobGap ==
    ASSUME ~ RecoveryMayFail,
           IInv, [Next]_vars, JobNext, job.retries = 0, NEW t \in 0..NChunks, Last(t),
           \A c \in Chunks : task'[0][c].pc # "none" => task[0][c].pc # "none"
    PROVE  \E n \in 0..NChunks : Last(n)'
<1>0. /\ TypeOK /\ JobTypeOver(LoopPcs) /\ job \in Row /\ ResumeAt(job) = job.progress.ckpt + 1
      /\ StatusInv /\ RunOK(0)
  BY Consts DEF IInv, TypeOK, JobTypeOver, RunInv, First, ResumeAt
<1>1. job'.progress = job.progress
  BY <1>0, JobKeepsProgress
<1>2. Moved(0)
  BY <1>0, JobRuns, Consts
<1>3. CASE ~ (run[0].pc = "wait" /\ run'[0].pc \in {"start", "loop"})
  <2>1. run'[0].pc \in {"start", "loop", "drain"} => t < run'[0].next
    BY <1>2, <1>3 DEF Last, Moved
  <2>2. Last(t)'
    BY <1>0, <1>1, <2>1, LastStays DEF Last
  <2> QED
    BY <2>2
<1>4. CASE run[0].pc = "wait" /\ run'[0].pc \in {"start", "loop"}
  <2>1. StartRead(0)
    BY <1>0, <1>4, Begins, Consts
  <2>2. job.status = "queued"
    <3>1. ~ Return(0)
      BY <1>0, <1>4, Consts DEF Return, NoRun, RunAt, JobTypeOver
    <3>2. arq[0] = "queued" /\ up["worker"] = "up"
      BY <1>0, <1>4 DEF RunOK
    <3> QED
      BY <1>0, <1>4, <2>1, <3>1, <3>2 DEF StartRead, StatusInv
  <2>3. job.progress.ckpt = 0 /\ Untouched /\ run'[0].next = 1
    BY <1>0, <1>2, <1>4, <2>2 DEF StatusInv, Moved
  <2>4. Last(0)
    BY <1>4, <2>3, NoneMissing DEF Last, Untouched
  <2>5. \A c \in Chunks : task'[0][c].pc = "none"
    BY <2>3 DEF Untouched
  <2>6. 0 \in 0..NChunks
    BY Consts
  <2>7. Last(0)'
    BY <1>0, <1>1, <2>3, <2>4, <2>5, <2>6, LastStays
  <2> QED
    BY <2>6, <2>7
<1> QED
  BY <1>3, <1>4

\* A new task is the last one, and what is missing below it is in flight.
LEMMA ProduceGap ==
    ASSUME ~ RecoveryMayFail,
           IInv, job.retries = 0, NEW t \in 0..NChunks, Last(t), NEW r \in Attempts, Produce(r)
    PROVE  \E n \in 0..NChunks : Last(n)'
<1>1. r = 0 /\ run[0].pc = "loop" /\ job.status # "cancelled" /\ LoopInv /\ RunOK(0)
  BY Consts DEF IInv, First, Alone, Produce, RunInv
<1>2. PICK n \in Chunks : n = run[0].next
  BY <1>1 DEF Produce
<1>3. /\ n \in 0..NChunks /\ t \in Int /\ n \in Int
      /\ job.progress.ckpt \in Int /\ job.progress.ckpt <= t /\ t < n
  <2>1. job.progress.ckpt \in Int
    BY Consts DEF IInv, TypeOK, JobTypeOver, Row, Progress
  <2>2. n \in 0..NChunks /\ n \in Int
    BY <1>2, Consts DEF Chunks
  <2> QED
    BY <1>1, <1>2, <2>1, <2>2 DEF Last
<1>4. /\ job' = job /\ UNCHANGED <<reviews, errored>>
      /\ run'[0].next = n + 1
      /\ \A c \in Chunks : c # n => task'[0][c] = task[0][c]
  BY <1>1, <1>2, Consts DEF Produce, IInv, TypeOK, JobTypeOver, RunStateOver
<1>5. MissingBelow(n) \subseteq InFlight(0)
  BY <1>1, <1>2 DEF LoopInv, MissingBelow, Pending, InFlight, Finished
<1>6. Cardinality(MissingBelow(n)) < 2 * ChunkConcurrency
  <2>1. Cardinality(MissingBelow(n)) <= Cardinality(InFlight(0))
    BY <1>5, InFlightFinite, FS_Subset
  <2>2. Cardinality(InFlight(0)) < 2 * ChunkConcurrency
    BY <1>1 DEF RunOK
  <2> QED
    BY <2>1, <2>2, MissingFinite, InFlightFinite, Consts
<1>7. MissingBelow(n)' = MissingBelow(n)
  BY <1>4 DEF MissingBelow, Accounted
<1>8. \A c \in Chunks : task'[0][c].pc # "none" => c <= n
  <2> SUFFICES ASSUME NEW c \in Chunks, task'[0][c].pc # "none" PROVE c <= n
    OBVIOUS
  <2>1. c \in Int /\ (c # n => c <= t)
    BY <1>4, Consts DEF Last
  <2> QED
    BY <1>3, <2>1
<1>9. Last(n)'
  BY <1>3, <1>4, <1>6, <1>7, <1>8 DEF Last
<1> QED
  BY <1>3, <1>9

\* Collecting tasks makes none and moves no checkpoint.
LEMMA CollectGap ==
    ASSUME IInv, [Next]_vars, NEW t \in 0..NChunks, Last(t), NEW r \in Attempts,
           ProduceCancelled(r) \/ DrainTasks(r) \/ Gather(r)
    PROVE  Last(t)'
<1>1. /\ TypeOK /\ JobTypeOver(LoopPcs) /\ task \in [Attempts -> [Chunks -> Task]]
      /\ run \in [Runs -> RunStateOver(LoopPcs)]
  BY Typing DEF IInv, JobTypeOver
<1>2. Drops(r, TRUE) \/ Drops(r, FALSE)
  BY <1>1, CollectDrops, CancelDrops DEF ProduceCancelled, DrainTasks, Gather
<1>3. \A c \in Chunks : task'[0][c].pc # "none" => task[0][c].pc # "none"
  BY <1>2, Consts DEF Drops, InFlight, Working, Finished
<1>4. job' = job
  BY DEF ProduceCancelled, DrainTasks, Gather
<1>5. run'[0].pc \in {"start", "loop", "drain"} =>
        run[0].pc \in {"start", "loop", "drain"} /\ run'[0].next = run[0].next
  <2>1. ASSUME NEW pc, Goto(r, pc), pc \in {"aftercheck", "fail"} \/ run[r].pc = "drain"
        PROVE  run'[0].pc \in {"start", "loop", "drain"} =>
                 run[0].pc \in {"start", "loop", "drain"} /\ run'[0].next = run[0].next
    <3>1. /\ run'[0].pc = IF 0 = r THEN pc ELSE run[0].pc
          /\ run'[0].next = run[0].next
      BY <1>1, <2>1, GotoAt, Consts
    <3> QED
      BY <2>1, <3>1
  <2> QED
    BY <2>1 DEF ProduceCancelled, DrainTasks, Gather
<1> QED
  BY <1>1, <1>3, <1>4, <1>5, LastStays DEF Last

\* A task moves the checkpoint to its own chunk at most, and only the run's own
\* tasks are there to do it.
LEMMA TaskGap ==
    ASSUME ~ RecoveryMayFail, IInv, [Next]_vars, job.retries = 0, NEW t \in 0..NChunks, Last(t),
           NEW r \in Attempts, NEW c \in Chunks, TaskStep(r, c)
    PROVE  Last(t)'
<1>1. /\ TypeOK /\ Alone /\ task \in [Attempts -> [Chunks -> Task]]
      /\ job \in Row /\ job.progress \in Progress
  BY Typing DEF IInv, JobTypeOver, Row, First
<1>2. task[r][c].pc # "none"
  BY DEF TaskStep, TaskStart, TaskPersist, TaskInferenceFails, TaskProgressRead,
     TaskProgressWrite, TaskAbort, Working
<1>3. r = 0 /\ c <= t
  BY <1>1, <1>2 DEF Alone, Last
<1>4. \A d \in Chunks : task'[0][d].pc # "none" => task[0][d].pc # "none"
  <2>1. \A d \in Chunks : d # c => task'[0][d] = task[0][d]
    BY <1>1, <1>3, Consts DEF TaskStep, TaskStart, SetTask, TaskPersist, TaskInferenceFails,
       TaskProgressRead, TaskProgressWrite, TaskAbort
  <2> QED
    BY <1>2, <1>3, <2>1
<1>5. run' = run
  BY DEF TaskStep, TaskStart, TaskPersist, TaskInferenceFails, TaskProgressRead,
     TaskProgressWrite, TaskAbort, jobVars
<1>6. job'.progress.ckpt <= t
  <2>1. CASE TaskProgressWrite(r, c)
    <3>1. job'.progress.ckpt \in {c, job.progress.ckpt}
      BY <1>1, <2>1 DEF TaskProgressWrite, ApplyProgress, Row
    <3> QED
      BY <1>3, <3>1 DEF Last
  <2>2. CASE ~ TaskProgressWrite(r, c)
    <3>1. job' = job
      BY <2>2 DEF TaskStep, TaskStart, TaskPersist, TaskInferenceFails, TaskProgressRead,
         TaskAbort, jobVars
    <3> QED
      BY <3>1 DEF Last
  <2> QED
    BY <2>1, <2>2
<1> QED
  BY <1>1, <1>4, <1>5, <1>6, LastStays DEF Last

\* A committed retry is not undone.
LEMMA RetriesStay ==
    ASSUME ~ RecoveryMayFail, IInv, [Next]_vars, job'.retries = 0
    PROVE  job.retries = 0
<1>1. job \in Row /\ RetryInv
  BY DEF IInv, TypeOK, JobTypeOver
<1>2. ASSUME NEW u \in Users, CancelRead(u) \/ RetryRead(u) \/ ApiWrite(u)
      PROVE  job.retries = 0
  BY <1>1, <1>2 DEF CancelRead, RetryRead, ApiWrite, CancelWrite, Unschedule, RetryWrite,
     Dispatch, RetryInv, Row
<1>3. ASSUME NEW r \in Attempts,
             \/ Deliver(r) \/ JobStep(r) \/ Produce(r) \/ ProduceCancelled(r) \/ DrainTasks(r)
             \/ LoopEnds(r) \/ Gather(r) \/ AfterCheck(r) \/ ProducerAbort(r) \/ ProducerStall(r)
      PROVE  job.retries = 0
  BY <1>1, <1>3 DEF Deliver, JobStep, StartRead, StartWrite, CompleteRead, CompleteWrite,
     FailRead, FailWrite, Produce, ProduceCancelled, DrainTasks, LoopEnds, Gather, AfterCheck,
     ProducerAbort, Abort, ProducerStall, Stall, Row
<1>4. ASSUME NEW r \in Attempts, NEW c \in Chunks, TaskStep(r, c) PROVE job.retries = 0
  BY <1>1, <1>4 DEF TaskStep, TaskStart, TaskPersist, TaskInferenceFails, TaskProgressRead,
     TaskProgressWrite, TaskAbort, jobVars, Row
<1>5. ASSUME WorkerCrash \/ Restart("worker") \/ RecoverRead \/ RecoverWrite \/ RecoverFails \/ UNCHANGED vars
      PROVE  job.retries = 0
  BY <1>1, <1>5 DEF WorkerCrash, Crash, Restart, RecoverRead, RecoverWrite,
     RecoverFails, vars, jobVars, Row
<1> QED
  BY <1>2, <1>3, <1>4, <1>5 DEF Next

LEMMA NextGap ==
    ASSUME ~ RecoveryMayFail, IInv, GapInv, [Next]_vars
    PROVE  GapInv'
<1> SUFFICES ASSUME job'.retries = 0 PROVE \E n \in 0..NChunks : Last(n)'
  BY DEF GapInv
<1>1. job.retries = 0
  BY RetriesStay
<1>2. PICK t \in 0..NChunks : Last(t)
  BY <1>1 DEF GapInv
<1>3. TypeOK /\ task \in [Attempts -> [Chunks -> Task]]
  BY Typing DEF IInv
<1>4. CASE JobNext /\ \A c \in Chunks : task'[0][c].pc # "none" => task[0][c].pc # "none"
  BY <1>1, <1>2, <1>4, JobGap
<1>5. CASE JobNext /\ UNCHANGED chunkVars
  BY <1>4, <1>5 DEF chunkVars
<1>6. ASSUME NEW r \in Attempts, Deliver(r) \/ JobStep(r) \/ Abort(r) \/ Stall(r) PROVE JobNext
  BY <1>6, Consts DEF JobNext
<1>7. ASSUME NEW r \in Attempts, ProducerStall(r) PROVE \E n \in 0..NChunks : Last(n)'
  <2>1. JobNext
    BY <1>6, <1>7 DEF ProducerStall
  <2>2. task' = task \/ Drops(r, TRUE)
    BY <1>3, <1>7, CancelDrops DEF ProducerStall
  <2>3. \A c \in Chunks : task'[0][c].pc # "none" => task[0][c].pc # "none"
    BY <2>2, Consts DEF Drops, InFlight, Working, Finished
  <2> QED
    BY <1>4, <2>1, <2>3
<1>8. CASE WorkerCrash
  <2>1. JobNext
    BY <1>8 DEF WorkerCrash, JobNext, Procs
  <2>2. \A c \in Chunks : task'[0][c].pc = "none"
    BY <1>8, Consts, NoTasksTyped DEF WorkerCrash
  <2> QED
    BY <1>4, <2>1, <2>2
<1>9. ASSUME NEW r \in Attempts, LoopEnds(r) \/ AfterCheck(r) PROVE Last(t)'
  <2>1. UNCHANGED <<job, task>> /\ run \in [Runs -> RunStateOver(LoopPcs)]
    BY <1>3, <1>9 DEF LoopEnds, AfterCheck, chunkVars, TypeOK, JobTypeOver
  <2>2. run'[0].pc \in {"start", "loop", "drain"} => run' = run \/ run'[0] = run[0]
    BY <1>9, <2>1, Consts DEF LoopEnds, AfterCheck, Goto, Return, NoRun, RunAt, RunStateOver
  <2> QED
    BY <1>2, <1>3, <2>1, <2>2, LastStays DEF Last
<1>10. ASSUME NEW r \in Attempts, Produce(r) PROVE \E n \in 0..NChunks : Last(n)'
  BY <1>1, <1>2, <1>10, ProduceGap
<1>11. ASSUME NEW r \in Attempts, ProduceCancelled(r) \/ DrainTasks(r) \/ Gather(r)
       PROVE  Last(t)'
  BY <1>2, <1>11, CollectGap
<1>12. ASSUME NEW r \in Attempts, NEW c \in Chunks, TaskStep(r, c) PROVE Last(t)'
  BY <1>1, <1>2, <1>12, TaskGap
<1>13. CASE UNCHANGED vars
  BY <1>2, <1>3, <1>13, LastStays DEF Last, vars, jobVars
<1>14. ASSUME NEW r \in Attempts, ProducerAbort(r) PROVE JobNext /\ UNCHANGED chunkVars
  BY <1>6, <1>14 DEF ProducerAbort
<1>15. ASSUME NEW r \in Attempts, Deliver(r) \/ JobStep(r) PROVE JobNext
  BY <1>6, <1>15
<1>16. ASSUME (\E u \in Users : CancelRead(u) \/ RetryRead(u) \/ ApiWrite(u))
              \/ Restart("worker") \/ RecoverRead \/ RecoverWrite \/ RecoverFails
       PROVE  JobNext
  BY <1>16 DEF JobNext, Procs
<1> QED
  BY <1>5, <1>7, <1>8, <1>9, <1>10, <1>11, <1>12, <1>13, <1>14, <1>15, <1>16 DEF Next

\* However tasks are interleaved, cancelled, killed or redelivered, a first
\* attempt's checkpoint never has 2 * concurrency unprocessed chunks below it:
\* that is all a retry can leave out (FailedJobResumable promises none).
THEOREM GapsBounded == ASSUME ~ RecoveryMayFail PROVE Spec => []CheckpointGapsBounded
<1>1. IInv /\ GapInv => CheckpointGapsBounded
  <2> SUFFICES ASSUME IInv, GapInv, job.retries = 0
               PROVE  Cardinality(MissingBelow(job.progress.ckpt)) < 2 * ChunkConcurrency
    BY DEF CheckpointGapsBounded
  <2>1. PICK t \in 0..NChunks : Last(t)
    BY DEF GapInv
  <2> DEFINE ckpt == job.progress.ckpt
  <2>2. ckpt \in Int /\ t \in Int /\ ckpt <= t
    BY <2>1, Consts DEF Last, IInv, TypeOK, JobTypeOver, Row, Progress
  <2>3. MissingBelow(ckpt) \subseteq MissingBelow(t)
    <3> HIDE DEF ckpt
    <3>1. ASSUME NEW c \in Chunks, c < ckpt PROVE c < t
      BY <2>2, <3>1, Consts
    <3> QED
      BY <3>1 DEF MissingBelow
  <2>4. Cardinality(MissingBelow(ckpt)) <= Cardinality(MissingBelow(t))
    BY <2>3, MissingFinite, FS_Subset
  <2>5. Cardinality(MissingBelow(ckpt)) \in Nat /\ Cardinality(MissingBelow(t)) \in Nat
    BY MissingFinite
  <2>6. Cardinality(MissingBelow(t)) < 2 * ChunkConcurrency
    BY <2>1 DEF Last
  <2> HIDE DEF ckpt
  <2>7. Cardinality(MissingBelow(ckpt)) < 2 * ChunkConcurrency
    BY <2>4, <2>5, <2>6, Consts
  <2> QED
    BY <2>7 DEF ckpt
<1> QED
  BY <1>1, InitGap, NextGap, Inductive, PTL DEF Spec
-----------------------------------------------------------------------------
(* What the counters of the first attempt may say.                           *)

\* The stored chunks that have no progress to report any more: they have, or
\* something stopped them.  The chunks given up (errored) are others or these.
Told == {c \in Chunks : reviews[c] > 0 /\ task[0][c].pc \notin {"progress", "commit"}}

\* Counters for which there are chunks.
Covers(told, err, p) ==
    /\ p.succeeded <= Cardinality(told)
    /\ p.failed <= Cardinality(err)
    /\ p.processed <= Cardinality(told \cup err)

\* So are the row's, and those a task has read and is about to add to.
CountInv ==
    job.retries = 0 =>
        /\ Covers(Told, errored, job.progress)
        /\ \A c \in Chunks :
             task[0][c].pc = "commit" => Covers(Told, errored, task[0][c].seen)

\* Counters stay covered as chunks are added, and so they do when they grow by
\* one with a chunk.
LEMMA CoversMore ==
    ASSUME NEW told \in SUBSET Chunks, NEW err \in SUBSET Chunks,
           NEW told2 \in SUBSET Chunks, NEW err2 \in SUBSET Chunks,
           told \subseteq told2, err \subseteq err2,
           NEW p \in Progress, Covers(told, err, p)
    PROVE  /\ Covers(told2, err2, p)
           /\ \A c \in told2 : c \notin told => p.succeeded + 1 <= Cardinality(told2)
           /\ \A c \in err2 : c \notin err => p.failed + 1 <= Cardinality(err2)
           /\ \A c \in told2 \cup err2 : c \notin told \cup err =>
                p.processed + 1 <= Cardinality(told2 \cup err2)
<1>1. ASSUME NEW A \in SUBSET Chunks, NEW B \in SUBSET Chunks, A \subseteq B,
             NEW n \in Nat, n <= Cardinality(A)
      PROVE  n <= Cardinality(B) /\ \A c \in B : c \notin A => n + 1 <= Cardinality(B)
  <2>1. IsFiniteSet(A) /\ IsFiniteSet(B)
    BY <1>1, Consts, FS_Subset
  <2>2. /\ Cardinality(A) \in Nat /\ Cardinality(B) \in Nat
        /\ Cardinality(A) <= Cardinality(B)
        /\ Cardinality(A) = Cardinality(B) => A = B
    BY <1>1, <2>1, FS_Subset, FS_CardinalityType
  <2> QED
    BY <1>1, <2>2
<1>2. p.succeeded \in Nat /\ p.failed \in Nat /\ p.processed \in Nat
  BY DEF Progress
<1>3. told \cup err \in SUBSET Chunks /\ told2 \cup err2 \in SUBSET Chunks
      /\ told \cup err \subseteq told2 \cup err2
  OBVIOUS
<1>4. Covers(told2, err2, p)
  BY <1>1, <1>2, <1>3 DEF Covers
<1>5. \A c \in told2 : c \notin told => p.succeeded + 1 <= Cardinality(told2)
  BY <1>1, <1>2 DEF Covers
<1>6. \A c \in err2 : c \notin err => p.failed + 1 <= Cardinality(err2)
  BY <1>1, <1>2 DEF Covers
<1>7. \A c \in told2 \cup err2 : c \notin told \cup err =>
        p.processed + 1 <= Cardinality(told2 \cup err2)
  BY <1>1, <1>2, <1>3 DEF Covers
<1> QED
  BY <1>4, <1>5, <1>6, <1>7

\* A task comes to its progress transaction from its inference, and holds what
\* it has read there.
Reported(c) ==
    task'[0][c].pc \in {"progress", "commit"} =>
        /\ task[0][c].pc \in {"infer", "progress", "commit"}
        /\ task'[0][c].pc = "commit" =>
             \/ task[0][c].pc = "commit" /\ task'[0][c].seen = task[0][c].seen
             \/ task'[0][c].seen = job.progress

LEMMA TaskReports ==
    ASSUME TypeOK, [Next]_vars, NEW c \in Chunks
    PROVE  Reported(c)
<1>0. task \in [Attempts -> [Chunks -> Task]] /\ 0 \in Attempts
  BY Typing, Consts
<1>1. CASE task'[0][c] = task[0][c]
  BY <1>1 DEF Reported
<1>2. CASE UNCHANGED chunkVars
  BY <1>1, <1>2 DEF chunkVars
<1>3. ASSUME NEW r \in Attempts, Drops(r, TRUE) \/ Drops(r, FALSE) PROVE Reported(c)
  <2>1. task'[0][c] = task[0][c] \/ task'[0][c].pc = "collected"
    BY <1>0, <1>3 DEF Drops
  <2> QED
    BY <1>1, <2>1 DEF Reported
<1>4. ASSUME NEW r \in Attempts,
             ProduceCancelled(r) \/ DrainTasks(r) \/ Gather(r) \/ ProducerStall(r)
      PROVE  Reported(c)
  <2>1. task' = task \/ Drops(r, TRUE) \/ Drops(r, FALSE)
    BY <1>0, <1>4, CollectDrops, CancelDrops DEF ProduceCancelled, DrainTasks, Gather,
       ProducerStall
  <2> QED
    BY <1>1, <1>3, <2>1
<1>5. ASSUME NEW r \in Attempts, Produce(r) PROVE Reported(c)
  <2>1. task'[0][c] = task[0][c] \/ task'[0][c].pc = "queued"
    BY <1>0, <1>5, NoTaskTyped DEF Produce, Task
  <2> QED
    BY <1>1, <2>1 DEF Reported
<1>6. CASE WorkerCrash
  BY <1>0, <1>6, NoTasksTyped DEF WorkerCrash, Reported
<1>7. ASSUME NEW r \in Attempts, NEW d \in Chunks, TaskStep(r, d), r # 0 \/ d # c
      PROVE  Reported(c)
  <2>1. task'[0][c] = task[0][c]
    BY <1>0, <1>7 DEF TaskStep, TaskStart, SetTask, TaskPersist, TaskInferenceFails,
       TaskProgressRead, TaskProgressWrite, TaskAbort
  <2> QED
    BY <1>1, <2>1
<1>8. ASSUME TaskStep(0, c) PROVE Reported(c)
  <2>0. task[0][c] \in Task /\ NoTask \in Task
    BY <1>0, NoTaskTyped
  <2>1. CASE TaskStart(0, c)
    BY <1>0, <2>1 DEF TaskStart, SetTask, Reported
  <2>2. CASE TaskPersist(0, c)
    BY <1>0, <2>2 DEF TaskPersist, SetTask, Reported
  <2>3. CASE TaskInferenceFails(0, c)
    BY <1>0, <2>3 DEF TaskInferenceFails, Reported
  <2>4. CASE TaskProgressRead(0, c)
    BY <1>0, <2>0, <2>4 DEF TaskProgressRead, Reported, Task
  <2>5. CASE TaskProgressWrite(0, c) \/ TaskAbort(0, c)
    BY <1>0, <2>0, <2>5 DEF TaskProgressWrite, TaskAbort, Reported, Task
  <2> QED
    BY <1>8, <2>1, <2>2, <2>3, <2>4, <2>5 DEF TaskStep
<1>9. CASE UNCHANGED vars
  BY <1>1, <1>9 DEF vars
<1>10. ASSUME NEW r \in Attempts, LoopEnds(r) \/ AfterCheck(r) \/ ProducerAbort(r)
       PROVE  UNCHANGED chunkVars
  BY <1>10 DEF LoopEnds, AfterCheck, ProducerAbort
<1> QED
  BY <1>2, <1>4, <1>5, <1>6, <1>7, <1>8, <1>9, <1>10 DEF Next

\* A stored review and a counted failure are never taken back.
LEMMA ToldGrows ==
    ASSUME ~ RecoveryMayFail, IInv, [Next]_vars, job.retries = 0
    PROVE  /\ Told \in SUBSET Chunks /\ Told' \in SUBSET Chunks /\ Told \subseteq Told'
           /\ errored \in SUBSET Chunks /\ errored' \in SUBSET Chunks
           /\ errored \subseteq errored'
<1>0. TypeOK /\ TaskInv /\ reviews \in [Chunks -> Nat] /\ errored \in SUBSET Chunks
  BY DEF IInv, First, TypeOK
<1>1. /\ errored \subseteq errored' /\ errored' \subseteq Chunks
      /\ \A c \in Chunks : reviews[c] > 0 => reviews'[c] > 0
  <2>1. CASE UNCHANGED <<reviews, errored>>
    BY <1>0, <2>1
  <2>2. ASSUME NEW r \in Attempts, NEW c \in Chunks, TaskStep(r, c)
        PROVE  /\ errored \subseteq errored' /\ errored' \subseteq Chunks
               /\ \A d \in Chunks : reviews[d] > 0 => reviews'[d] > 0
    BY <1>0, <2>2 DEF TaskStep, TaskStart, TaskPersist, TaskInferenceFails, TaskProgressRead,
       TaskProgressWrite, TaskAbort
  <2>3. ASSUME NEW r \in Attempts,
               \/ Produce(r) \/ ProduceCancelled(r) \/ DrainTasks(r) \/ LoopEnds(r)
               \/ Gather(r) \/ AfterCheck(r) \/ ProducerAbort(r) \/ ProducerStall(r)
        PROVE  UNCHANGED <<reviews, errored>>
    BY <2>3 DEF Produce, ProduceCancelled, DrainTasks, LoopEnds, Gather, AfterCheck,
       ProducerAbort, ProducerStall, chunkVars
  <2>4. WorkerCrash \/ UNCHANGED chunkVars \/ UNCHANGED vars => UNCHANGED <<reviews, errored>>
    BY DEF WorkerCrash, chunkVars, vars
  <2> QED
    BY <2>1, <2>2, <2>3, <2>4 DEF Next
<1>2. ASSUME NEW c \in Told PROVE c \in Told'
  <2>1. c \in Chunks /\ reviews[c] > 0 /\ task[0][c].pc \notin {"infer", "progress", "commit"}
    BY <1>0 DEF Told, TaskInv, Accounted
  <2>2. task'[0][c].pc \notin {"progress", "commit"}
    BY <1>0, <2>1, TaskReports DEF Reported
  <2> QED
    BY <1>1, <2>1, <2>2 DEF Told
<1>3. Told \in SUBSET Chunks /\ Told' \in SUBSET Chunks
  BY DEF Told
<1> QED
  BY <1>0, <1>1, <1>2, <1>3

LEMMA CountersKept ==
    ASSUME TypeOK, [Next]_vars, \A r \in Attempts, c \in Chunks : ~ TaskProgressWrite(r, c)
    PROVE  job'.progress = job.progress
<1>0. job \in Row
  BY DEF TypeOK, JobTypeOver
<1>1. CASE JobNext
  BY <1>0, <1>1, JobKeepsProgress
<1>2. CASE job' = job
  BY <1>2
<1>3. ASSUME NEW r \in Attempts,
             Deliver(r) \/ JobStep(r) \/ ProducerAbort(r) \/ ProducerStall(r)
      PROVE  JobNext
  BY <1>3, Consts DEF JobNext, ProducerAbort, ProducerStall
<1>4. ASSUME NEW r \in Attempts,
             \/ Produce(r) \/ ProduceCancelled(r) \/ DrainTasks(r) \/ LoopEnds(r)
             \/ Gather(r) \/ AfterCheck(r)
      PROVE  job' = job
  BY <1>4 DEF Produce, ProduceCancelled, DrainTasks, LoopEnds, Gather, AfterCheck
<1>5. ASSUME NEW r \in Attempts, NEW c \in Chunks, TaskStep(r, c) PROVE job' = job
  BY <1>5 DEF TaskStep, TaskStart, TaskPersist, TaskInferenceFails, TaskProgressRead,
     TaskAbort, jobVars
<1>6. ASSUME \/ \E u \in Users : CancelRead(u) \/ RetryRead(u) \/ ApiWrite(u)
             \/ WorkerCrash \/ Restart("worker") \/ RecoverRead \/ RecoverWrite \/ RecoverFails
      PROVE  JobNext
  BY <1>6 DEF JobNext, WorkerCrash, Procs
<1>7. UNCHANGED vars => job' = job
  BY DEF vars, jobVars
<1> QED
  BY <1>1, <1>2, <1>3, <1>4, <1>5, <1>6, <1>7 DEF Next

\* What a task adds to the counters it read, it adds for its own chunk.
LEMMA CountedWrite ==
    ASSUME ~ RecoveryMayFail, IInv, IInv', [Next]_vars, job.retries = 0, CountInv,
           NEW r \in Attempts, NEW c \in Chunks, TaskProgressWrite(r, c)
    PROVE  Covers(Told, errored, job.progress)'
<1>0. /\ TypeOK /\ Alone /\ TaskInv /\ task \in [Attempts -> [Chunks -> Task]]
      /\ job \in Row /\ job.progress \in Progress /\ task[r][c].pc = "commit"
  BY Typing DEF IInv, First, JobTypeOver, Row, TaskProgressWrite
<1>1. r = 0 /\ 0 \in Attempts
  BY <1>0, Consts DEF Alone
<1>2. PICK seen \in Progress, ok \in BOOLEAN : seen = task[0][c].seen /\ ok = task[0][c].ok
  BY <1>0, <1>1 DEF Task
<1>3. PICK told \in SUBSET Chunks, err \in SUBSET Chunks,
           told2 \in SUBSET Chunks, err2 \in SUBSET Chunks :
        /\ told = Told /\ err = errored /\ told2 = Told' /\ err2 = errored'
        /\ told \subseteq told2 /\ err \subseteq err2
  BY ToldGrows
<1>4. /\ Covers(told, err, seen) /\ Covers(told, err, job.progress)
      /\ c \notin told /\ c \notin err
  BY <1>0, <1>1, <1>2, <1>3 DEF CountInv, TaskInv, Told
<1>5. IF ok THEN c \in told2 ELSE c \in err2
  <2>1. reviews' = reviews /\ errored' = IF ok THEN errored ELSE errored \cup {c}
    BY <1>1, <1>2 DEF TaskProgressWrite
  <2>2. ok => reviews[c] > 0
    BY <1>0, <1>1, <1>2 DEF TaskInv
  <2>3. task'[0][c].pc = "done"
    BY <1>0, <1>1, NoTaskTyped DEF TaskProgressWrite, Task
  <2> QED
    BY <1>3, <2>1, <2>2, <2>3 DEF Told
<1>6. job'.progress = ApplyProgress(job.progress, seen, c, ok)
  BY <1>0, <1>1, <1>2 DEF TaskProgressWrite, Row
<1>7. /\ Covers(told2, err2, job.progress)
      /\ ok => seen.succeeded + 1 <= Cardinality(told2)
      /\ ~ ok => seen.failed + 1 <= Cardinality(err2)
      /\ seen.processed + 1 <= Cardinality(told2 \cup err2)
  <2>1. Covers(told2, err2, job.progress)
    BY <1>0, <1>3, <1>4, CoversMore
  <2>2. /\ \A d \in told2 : d \notin told => seen.succeeded + 1 <= Cardinality(told2)
        /\ \A d \in err2 : d \notin err => seen.failed + 1 <= Cardinality(err2)
        /\ \A d \in told2 \cup err2 : d \notin told \cup err =>
             seen.processed + 1 <= Cardinality(told2 \cup err2)
    <3>1. Covers(told, err, seen) /\ told \subseteq told2 /\ err \subseteq err2
      BY <1>3, <1>4
    <3> QED
      BY <3>1, CoversMore
  <2> QED
    BY <1>4, <1>5, <2>1, <2>2
<1>8. Covers(told2, err2, ApplyProgress(job.progress, seen, c, ok))
  BY <1>7 DEF Covers, ApplyProgress
<1> QED
  BY <1>3, <1>6, <1>8 DEF Covers

LEMMA NextCount ==
    ASSUME ~ RecoveryMayFail, IInv, IInv', [Next]_vars, CountInv
    PROVE  CountInv'
<1> SUFFICES ASSUME job'.retries = 0
             PROVE  /\ Covers(Told, errored, job.progress)'
                    /\ \A c \in Chunks :
                         task'[0][c].pc = "commit" => Covers(Told', errored', task'[0][c].seen)
  BY DEF CountInv, Covers
<1>1. job.retries = 0
  BY RetriesStay
<1>2. TypeOK /\ job.progress \in Progress /\ task \in [Attempts -> [Chunks -> Task]]
      /\ 0 \in Attempts
  BY Typing, Consts DEF IInv, JobTypeOver, Row
<1>3. \A p \in Progress : Covers(Told, errored, p) => Covers(Told', errored', p)
  BY <1>1, ToldGrows, CoversMore
<1>4. ASSUME NEW c \in Chunks, task'[0][c].pc = "commit"
      PROVE  Covers(Told', errored', task'[0][c].seen)
  <2>1. \/ task[0][c].pc = "commit" /\ task'[0][c].seen = task[0][c].seen
        \/ task'[0][c].seen = job.progress
    BY <1>2, <1>4, TaskReports DEF Reported
  <2>2. task[0][c].seen \in Progress
    BY <1>2 DEF Task
  <2> QED
    BY <1>1, <1>2, <1>3, <2>1, <2>2 DEF CountInv
<1>5. Covers(Told, errored, job.progress)'
  <2>1. CASE \E r \in Attempts, c \in Chunks : TaskProgressWrite(r, c)
    BY <1>1, <2>1, CountedWrite
  <2>2. CASE \A r \in Attempts, c \in Chunks : ~ TaskProgressWrite(r, c)
    <3>1. job'.progress = job.progress
      BY <1>2, <2>2, CountersKept
    <3>2. Covers(Told', errored', job.progress)
      BY <1>1, <1>2, <1>3 DEF CountInv
    <3> QED
      BY <3>1, <3>2 DEF Covers
  <2> QED
    BY <2>1, <2>2
<1> QED
  BY <1>4, <1>5

LEMMA InitCount == Init => CountInv
<1> SUFFICES ASSUME Init PROVE CountInv
  OBVIOUS
<1>1. Told = {} /\ errored = {} /\ Told \cup errored = {}
  BY DEF Init, Told
<1>2. job.progress = NoProgress /\ \A c \in Chunks : task[0][c].pc = "none"
  BY NoTasksTyped, Consts DEF Init, JobInit, NewRow
<1>3. Cardinality({}) = 0
  BY FS_EmptySet
<1> QED
  BY <1>1, <1>2, <1>3 DEF CountInv, Covers, NoProgress

\* However the progress transactions of parallel chunks interleave and lose each
\* other's deltas, the counters of a first attempt never claim more chunks than
\* are stored, given up, or either.
THEOREM NeverAhead == ASSUME ~ RecoveryMayFail PROVE Spec => []CountersNeverAhead
<1>1. IInv /\ CountInv => CountersNeverAhead
  <2> SUFFICES ASSUME IInv, CountInv, job.retries = 0
               PROVE  /\ job.progress.succeeded
                           <= Cardinality({c \in Chunks : reviews[c] > 0})
                      /\ job.progress.failed <= Cardinality(errored)
                      /\ job.progress.processed <= Cardinality({c \in Chunks : Accounted(c)})
    BY DEF CountersNeverAhead
  <2> DEFINE stored == {c \in Chunks : reviews[c] > 0}
  <2>1. PICK told \in SUBSET Chunks, err \in SUBSET Chunks : told = Told /\ err = errored
    BY DEF Told, IInv, TypeOK
  <2>2. told \subseteq stored /\ {c \in Chunks : Accounted(c)} = stored \cup err
    BY <2>1 DEF Told, Accounted
  <2>3. job.progress \in Progress /\ Covers(told, err, job.progress)
    BY <2>1 DEF IInv, TypeOK, JobTypeOver, Row, CountInv
  <2>4. stored \in SUBSET Chunks
    OBVIOUS
  <2> HIDE DEF stored
  <2>5. Covers(stored, err, job.progress)
    BY <2>2, <2>3, <2>4, CoversMore
  <2> QED
    BY <2>1, <2>2, <2>5 DEF Covers, stored
<1> QED
  BY <1>1, InitCount, NextCount, Inductive, PTL DEF Spec
=============================================================================
