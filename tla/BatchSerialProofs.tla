-------------------------- MODULE BatchSerialProofs --------------------------
(***************************************************************************)
(* The serial chunk loop loses no row: for every number of chunks,         *)
(* attempts, requests and faults, and with the job running in both         *)
(* processes at once, a completed job has every row accounted for and the  *)
(* checkpoint never passes an unprocessed row.                             *)
(***************************************************************************)
EXTENDS BatchSerial, BatchJobProofs, FiniteSetTheorems

\* What a run knows while it is in the loop: every chunk before the one it
\* is at is accounted for, by whichever run, and so is its own once written.
RunKnows(r) ==
    /\ run[r].pc \in {"start", "loop", "infer", "progress", "commit"} =>
        \A c \in Chunks : c < run[r].next => Accounted(c)
    /\ run[r].pc \in {"infer", "progress", "commit"} => run[r].next \in Chunks
    /\ run[r].pc \in {"progress", "commit"} /\ run[r].ok => Accounted(run[r].next)
    /\ run[r].pc \in {"complete", "completing"} => \A c \in Chunks : Accounted(c)

RunInv == \A r \in Runs : RunKnows(r)

IInv == TypeOK /\ RunInv /\ ResumeSkipsNothing /\ CompletedCoversAllRows

LEMMA InitInv == Init => IInv
<1> SUFFICES ASSUME Init PROVE IInv
  OBVIOUS
<1>1. TypeOK
  BY InitJobType DEF Init, TypeOK
<1>2. RunInv
  BY Constants DEF Init, JobInit, RunInv, RunKnows, NoRun, RunAt
<1>3. ResumeSkipsNothing /\ CompletedCoversAllRows
  BY Constants DEF Init, JobInit, ResumeSkipsNothing, CompletedCoversAllRows, NewRow, NoProgress
<1> QED
  BY <1>1, <1>2, <1>3 DEF IInv

-----------------------------------------------------------------------------
(* Type correctness.                                                       *)

LEMMA ChunkStepType ==
    ASSUME TypeOK, NEW r \in Runs, ChunkStep(r),
           run[r].pc \in {"infer", "progress", "commit"} => run[r].next \in Chunks
    PROVE  TypeOK'
<1>g. ASSUME NEW pc \in {"infer", "complete"}, Goto(r, pc)
      PROVE  run' \in [Runs -> RunStateOver(LoopPcs)]
  BY <1>g, GotoType DEF TypeOK, LoopPcs
<1>r. ASSUME Return(r)
      PROVE  /\ run' \in [Runs -> RunStateOver(LoopPcs)]
             /\ arq' \in [Attempts -> {"none", "queued", "done"}]
  BY <1>r, ReturnType DEF TypeOK
<1>1. CASE NextChunk(r)
  BY <1>1, <1>g, <1>r DEF TypeOK, JobTypeOver, NextChunk
<1>2. CASE LoopEnds(r)
  BY <1>2, <1>g DEF TypeOK, JobTypeOver, LoopEnds
<1>3. CASE Persist(r)
  <2>1. run' \in [Runs -> RunStateOver(LoopPcs)]
    BY <1>3 DEF TypeOK, JobTypeOver, Persist, RunStateOver, LoopPcs
  <2>2. reviews' \in [Chunks -> Nat]
    BY <1>3 DEF TypeOK, JobTypeOver, Persist
  <2> QED
    BY <1>3, <2>1, <2>2 DEF TypeOK, JobTypeOver, Persist
<1>4. CASE InferenceFails(r)
  <2>1. run' \in [Runs -> RunStateOver(LoopPcs)]
    BY <1>4 DEF TypeOK, JobTypeOver, InferenceFails, RunStateOver, LoopPcs
  <2> QED
    BY <1>4, <2>1 DEF TypeOK, JobTypeOver, InferenceFails
<1>5. CASE ProgressRead(r)
  <2>1. job.progress \in Progress
    BY DEF TypeOK, JobTypeOver, Row
  <2>2. run' \in [Runs -> RunStateOver(LoopPcs)]
    BY <1>5, <2>1 DEF TypeOK, JobTypeOver, ProgressRead, RunStateOver, LoopPcs
  <2> QED
    BY <1>5, <2>2 DEF TypeOK, JobTypeOver, ProgressRead
<1>6. CASE ProgressWrite(r)
  <2> DEFINE c == run[r].next
             p == ApplyProgress(job.progress, run[r].seen, c, run[r].ok)
  <2>1. c \in Chunks
    BY <1>6 DEF ProgressWrite
  <2>2. p \in Progress
    <3>1. job.progress \in Progress /\ run[r].seen \in Progress /\ run[r].ok \in BOOLEAN
      BY DEF TypeOK, JobTypeOver, Row, RunStateOver, LoopPcs
    <3> QED
      BY <2>1, <3>1, ApplyType
  <2>3. job' = [job EXCEPT !.progress = p]
    BY <1>6 DEF ProgressWrite
  <2>4. job' \in Row
    <3> HIDE DEF p
    <3> QED
      BY <2>2, <2>3 DEF TypeOK, JobTypeOver, Row
  <2>5. RunAt("loop", c + 1) \in RunStateOver(LoopPcs)
    BY <2>1, Constants DEF RunAt, RunStateOver, LoopPcs, Chunks
  <2>6. run' \in [Runs -> RunStateOver(LoopPcs)]
    BY <1>6, <2>5 DEF TypeOK, JobTypeOver, ProgressWrite
  <2>7. errored' \subseteq Chunks
    BY <1>6, <2>1 DEF TypeOK, JobTypeOver, ProgressWrite
  <2> QED
    BY <1>6, <2>4, <2>6, <2>7 DEF TypeOK, JobTypeOver, ProgressWrite
<1> QED
  BY <1>1, <1>2, <1>3, <1>4, <1>5, <1>6 DEF ChunkStep

\* A run past the top of the loop is at a chunk of the file.
LEMMA TypeStep ==
    ASSUME TypeOK, RunInv, [Next]_vars
    PROVE  TypeOK'
<1>1. CASE JobNext /\ UNCHANGED <<reviews, errored>>
  BY <1>1, JobType DEF TypeOK
<1>2. ASSUME NEW r \in Runs, ChunkStep(r) PROVE TypeOK'
  BY <1>2, ChunkStepType DEF RunInv, RunKnows
<1>3. CASE UNCHANGED vars
  BY <1>3, JobIdleType DEF TypeOK, vars
<1> QED
  BY <1>1, <1>2, <1>3 DEF Next

-----------------------------------------------------------------------------
(* The rows.                                                               *)

\* What is accounted for stays accounted for.
LEMMA AccountedStays ==
    ASSUME TypeOK, [Next]_vars, NEW c \in Chunks, Accounted(c)
    PROVE  Accounted(c)'
<1>1. CASE UNCHANGED <<reviews, errored>>
  BY <1>1 DEF Accounted
<1>2. ASSUME NEW r \in Runs, ChunkStep(r) PROVE Accounted(c)'
  <2>1. CASE Persist(r)
    BY <2>1 DEF TypeOK, JobTypeOver, Persist, Accounted
  <2>2. CASE ProgressWrite(r)
    BY <2>2 DEF ProgressWrite, Accounted
  <2> QED
    BY <1>1, <1>2, <2>1, <2>2
       DEF ChunkStep, NextChunk, LoopEnds, InferenceFails, ProgressRead
<1> QED
  BY <1>1, <1>2 DEF Next, vars

\* A step that leaves a run where it is, or takes it out of the loop, leaves
\* it nothing to show.
LEMMA OtherRun ==
    ASSUME TypeOK, [Next]_vars, NEW r \in Runs, RunKnows(r),
           \/ run'[r] = run[r]
           \/ run'[r].pc \in {"idle", "wait", "fail", "failing"}
    PROVE  RunKnows(r)'
<1>1. CASE run'[r].pc \in {"idle", "wait", "fail", "failing"}
  BY <1>1 DEF RunKnows
<1>2. CASE run'[r] = run[r]
  <2>1. \A c \in Chunks : Accounted(c) => Accounted(c)'
    BY AccountedStays
  <2> QED
    BY <1>2, <2>1 DEF RunKnows
<1> QED
  BY <1>1, <1>2

\* Steps outside the chunk loop move at most one run.
LEMMA JobNextRuns ==
    ASSUME IInv, JobNext, UNCHANGED <<reviews, errored>>
    PROVE  RunInv'
<1> USE DEF IInv
<1> SUFFICES ASSUME NEW q \in Runs PROVE RunKnows(q)'
  BY DEF RunInv
<1>0. [Next]_vars /\ TypeOK /\ RunKnows(q) /\ job \in Row
  BY DEF Next, RunInv, TypeOK, JobTypeOver
<1>a. \A c \in Chunks : Accounted(c)' = Accounted(c)
  BY DEF Accounted
<1>1. Moved(q)
  BY <1>0, JobRuns DEF TypeOK
<1>2. CASE run'[q] = run[q] \/ run'[q].pc \in {"idle", "wait", "fail", "failing"}
  BY <1>0, <1>2, OtherRun
<1>3. CASE run'[q].pc \in {"start", "loop"} /\ run'[q].next = ResumeAt(job)
  <2>1. job.progress.ckpt \in Nat
    BY <1>0, Constants DEF Row, Progress
  <2>2. \A c \in Chunks : c < run'[q].next => Accounted(c)
    BY <1>3, <2>1 DEF ResumeSkipsNothing, ResumeAt, Chunks
  <2> QED
    BY <1>3, <1>a, <2>2 DEF RunKnows
<1>4. CASE run[q].pc = "start" /\ run'[q].pc = "loop" /\ run'[q].next = run[q].next
  BY <1>0, <1>4, <1>a DEF RunKnows
<1>5. CASE run[q].pc = "complete" /\ run'[q].pc = "completing"
  BY <1>0, <1>5, <1>a DEF RunKnows
<1> QED
  BY <1>1, <1>2, <1>3, <1>4, <1>5 DEF Moved

LEMMA ChunkStepRuns ==
    ASSUME IInv, NEW r \in Runs, ChunkStep(r)
    PROVE  RunInv'
<1> USE DEF IInv
<1> SUFFICES ASSUME NEW q \in Runs PROVE RunKnows(q)'
  BY DEF RunInv
<1>0. [Next]_vars /\ TypeOK /\ RunKnows(q) /\ run \in [Runs -> RunStateOver(LoopPcs)]
  BY DEF Next, RunInv, TypeOK, JobTypeOver
<1>a. \A c \in Chunks : Accounted(c) => Accounted(c)'
  BY <1>0, AccountedStays
<1>1. CASE q # r
  <2>1. run'[q] = run[q]
    BY <1>0, <1>1 DEF ChunkStep, NextChunk, LoopEnds, Persist, InferenceFails, ProgressRead,
       ProgressWrite, Goto, Return
  <2> QED
    BY <1>0, <2>1, OtherRun
<1>2. CASE q = r /\ NextChunk(r)
  <2>1. CASE Return(r)
    BY <1>0, <1>2, <2>1, OtherRun DEF Return, NoRun, RunAt
  <2>2. CASE ~Return(r)
    <3>1. run[q].pc = "loop" /\ run[q].next \in Chunks
          /\ run'[q].pc = "infer" /\ run'[q].next = run[q].next
      BY <1>0, <1>2, <2>2 DEF NextChunk, Goto, RunStateOver, LoopPcs
    <3> QED
      BY <1>0, <1>a, <3>1 DEF RunKnows
  <2> QED
    BY <2>1, <2>2
<1>3. CASE q = r /\ LoopEnds(r)
  <2>1. run[q].pc = "loop" /\ run[q].next > NChunks /\ run'[q].pc = "complete"
    BY <1>0, <1>3 DEF LoopEnds, Goto, RunStateOver, LoopPcs
  <2>2. \A c \in Chunks : c < run[q].next
    BY <1>0, <2>1, Constants DEF RunStateOver, LoopPcs, Chunks
  <2> QED
    BY <1>0, <1>a, <2>1, <2>2 DEF RunKnows
<1>4. CASE q = r /\ (Persist(r) \/ InferenceFails(r) \/ ProgressRead(r))
  <2>1. /\ run[q].pc \in {"infer", "progress"}
        /\ run'[q].pc \in {"progress", "commit"}
        /\ run'[q].next = run[q].next
    BY <1>0, <1>4 DEF Persist, InferenceFails, ProgressRead, RunStateOver, LoopPcs
  <2>c. PICK c \in Chunks : c = run[q].next
    BY <1>0, <2>1 DEF RunKnows
  <2>2. run'[q].ok => Accounted(c)'
    <3>1. CASE Persist(r)
      BY <1>4, <2>c, <3>1 DEF Persist, Accounted, TypeOK
    <3>2. CASE InferenceFails(r)
      BY <1>0, <1>4, <3>2 DEF InferenceFails, RunStateOver, LoopPcs
    <3>3. CASE ProgressRead(r)
      <4>1. run[q].pc = "progress" /\ run'[q].ok = run[q].ok
        BY <1>0, <1>4, <3>3 DEF ProgressRead, RunStateOver, LoopPcs
      <4> QED
        BY <1>0, <1>a, <2>c, <4>1 DEF RunKnows
    <3> QED
      BY <1>4, <3>1, <3>2, <3>3
  <2> QED
    BY <1>0, <1>a, <2>1, <2>c, <2>2 DEF RunKnows
<1>5. CASE q = r /\ ProgressWrite(r)
  <2>1. PICK c \in Chunks : run[q].pc = "commit" /\ c = run[q].next
    BY <1>0, <1>5 DEF ProgressWrite, RunKnows
  <2>2. run'[q].pc = "loop" /\ run'[q].next = c + 1
    BY <1>0, <1>5, <2>1 DEF ProgressWrite, RunAt
  <2>3. Accounted(c)'
    <3>1. CASE run[q].ok
      BY <1>0, <1>a, <2>1, <3>1 DEF RunKnows
    <3>2. CASE ~run[q].ok
      BY <1>5, <2>1, <3>2 DEF ProgressWrite, Accounted
    <3> QED
      BY <3>1, <3>2
  <2>4. \A d \in Chunks : d < c + 1 => d < c \/ d = c
    BY DEF Chunks
  <2> QED
    BY <1>0, <1>a, <2>1, <2>2, <2>3, <2>4 DEF RunKnows
<1> QED
  BY <1>1, <1>2, <1>3, <1>4, <1>5 DEF ChunkStep

\* The checkpoint moves only with a committed chunk, whose predecessors the
\* run has shown to be accounted for.
LEMMA ResumeStep ==
    ASSUME IInv, [Next]_vars
    PROVE  ResumeSkipsNothing'
<1> USE DEF IInv
<1>0. TypeOK /\ RunInv /\ ResumeSkipsNothing /\ job.progress.ckpt \in 0..NChunks
  BY DEF TypeOK, JobTypeOver, Row, Progress
<1>a. \A c \in Chunks : Accounted(c) => Accounted(c)'
  BY AccountedStays
<1>b. 1..job.progress.ckpt \subseteq Chunks
  BY <1>0, Constants DEF Chunks
<1>1. ASSUME job'.progress.ckpt = job.progress.ckpt PROVE ResumeSkipsNothing'
  BY <1>0, <1>1, <1>a, <1>b DEF ResumeSkipsNothing
<1>2. CASE JobNext
  <2>1. job'.progress = job.progress
    BY <1>0, <1>2, JobKeepsProgress DEF TypeOK, JobTypeOver
  <2> QED
    BY <1>1, <2>1
<1>3. ASSUME NEW r \in Runs, ChunkStep(r) PROVE ResumeSkipsNothing'
  <2>1. CASE ProgressWrite(r)
    <3>1. PICK c \in Chunks : run[r].pc = "commit" /\ c = run[r].next /\ RunKnows(r)
      BY <1>0, <2>1 DEF ProgressWrite, RunInv, RunKnows
    <3>2. job'.progress.ckpt \in {c, job.progress.ckpt}
      BY <1>0, <2>1, <3>1 DEF ProgressWrite, ApplyProgress, TypeOK, Row
    <3>3. Accounted(c)'
      <4>1. CASE run[r].ok
        BY <1>a, <3>1, <4>1 DEF RunKnows
      <4>2. CASE ~run[r].ok
        BY <2>1, <3>1, <4>2 DEF ProgressWrite, Accounted
      <4> QED
        BY <4>1, <4>2
    <3>4. ASSUME job'.progress.ckpt = c PROVE ResumeSkipsNothing'
      <4>1. \A d \in 1..c : d \in Chunks /\ (d < c \/ d = c)
        BY Constants DEF Chunks
      <4>2. \A d \in 1..c : Accounted(d)'
        BY <1>a, <3>1, <3>3, <4>1 DEF RunKnows
      <4> QED
        BY <3>4, <4>2 DEF ResumeSkipsNothing
    <3> QED
      BY <1>1, <3>2, <3>4
  <2>2. CASE ~ProgressWrite(r)
    BY <1>1, <1>3, <2>2
       DEF ChunkStep, NextChunk, LoopEnds, Persist, InferenceFails, ProgressRead
  <2> QED
    BY <2>1, <2>2
<1>4. CASE UNCHANGED vars
  BY <1>1, <1>4 DEF vars, jobVars
<1> QED
  BY <1>2, <1>3, <1>4 DEF Next

\* Only mark_completed makes a job completed, and its run has come out of
\* the end of the loop.
LEMMA CompletedStep ==
    ASSUME IInv, [Next]_vars
    PROVE  CompletedCoversAllRows'
<1> USE DEF IInv
<1>0. TypeOK /\ RunInv /\ CompletedCoversAllRows
  OBVIOUS
<1>a. \A c \in Chunks : Accounted(c) => Accounted(c)'
  BY AccountedStays
<1>1. ASSUME job'.status = "completed" => job.status = "completed"
      PROVE  CompletedCoversAllRows'
  BY <1>0, <1>1, <1>a DEF CompletedCoversAllRows
<1>2. ASSUME NEW r \in Runs, run[r].pc = "completing" PROVE CompletedCoversAllRows'
  BY <1>0, <1>2, <1>a DEF RunInv, RunKnows, CompletedCoversAllRows
<1>3. CASE JobNext
  <2>1. \/ job'.status = "completed" => job.status = "completed"
        \/ \E r \in Runs : run[r].pc = "completing"
    BY <1>0, <1>3, JobCompletes DEF TypeOK, JobTypeOver
  <2> QED
    BY <1>1, <1>2, <2>1
<1>4. ASSUME NEW r \in Runs, ChunkStep(r) PROVE CompletedCoversAllRows'
  <2>1. job'.status = job.status
    BY <1>0, <1>4 DEF TypeOK, JobTypeOver, Row, ChunkStep, NextChunk, LoopEnds, Persist, InferenceFails,
       ProgressRead, ProgressWrite
  <2> QED
    BY <1>1, <2>1
<1>5. CASE UNCHANGED vars
  BY <1>1, <1>5 DEF vars, jobVars
<1> QED
  BY <1>2, <1>3, <1>4, <1>5 DEF Next

LEMMA NextInv == IInv /\ [Next]_vars => IInv'
<1> SUFFICES ASSUME IInv, [Next]_vars PROVE IInv'
  OBVIOUS
<1>1. TypeOK'
  BY TypeStep DEF IInv
<1>2. RunInv'
  <2>1. CASE UNCHANGED vars
    <3>1. \A r \in Runs : RunKnows(r)'
      BY <2>1, OtherRun DEF IInv, RunInv, vars, jobVars
    <3> QED
      BY <3>1 DEF RunInv
  <2> QED
    BY <2>1, JobNextRuns, ChunkStepRuns DEF Next
<1> QED
  BY <1>1, <1>2, ResumeStep, CompletedStep DEF IInv

-----------------------------------------------------------------------------
(* Theorems.                                                               *)

\* The strengthening itself is invariant.
THEOREM Inductive == Spec => []IInv
BY InitInv, NextInv, PTL DEF Spec

\* Every reachable state is well typed (TypeOK).
THEOREM TypeCorrect == Spec => []TypeOK
<1>1. IInv => TypeOK
  BY DEF IInv
<1> QED
  BY <1>1, Inductive, PTL

\* A completed job left no row out, for any file, any number of retries,
\* concurrent cancel and retry requests, crashes, exceptions and timeouts,
\* and both processes running the job at once (_run_job, mark_completed).
THEOREM NoRowLost == Spec => []CompletedCoversAllRows
<1>1. IInv => CompletedCoversAllRows
  BY DEF IInv
<1> QED
  BY <1>1, Inductive, PTL

\* A retry never resumes past a row that nobody processed, under the same
\* circumstances (apply_progress, the resume filter of _run_job).
THEOREM NoRowSkipped == Spec => []ResumeSkipsNothing
<1>1. IInv => ResumeSkipsNothing
  BY DEF IInv
<1> QED
  BY <1>1, Inductive, PTL

-----------------------------------------------------------------------------
(* The refinement.                                                         *)

AccountedRows == {c \in Chunks : Accounted(c)}

LEMMA RowsAreChunks == Accounting!Rows = Chunks
BY DEF Accounting!Rows, Chunks

LEMMA InitAccounting == Init => Accounting!Init
<1> SUFFICES ASSUME Init PROVE Accounting!Init
  OBVIOUS
<1>1. AccountedRows = {}
  BY DEF Init, Accounted, AccountedRows
<1>2. job.progress.ckpt = 0 /\ job.status # "completed"
  BY DEF Init, JobInit, NewRow, NoProgress
<1> QED
  BY <1>1, <1>2 DEF Accounting!Init, AccountedRows

\* A checkpoint behind which nothing is skipped is a good one.
LEMMA CheckpointGood ==
    ASSUME TypeOK, ResumeSkipsNothing
    PROVE  Accounting!GoodCheckpoint(job.progress.ckpt, AccountedRows)
<1>1. job.progress.ckpt \in 0..NChunks
  BY DEF TypeOK, JobTypeOver, Row, Progress
<1>2. 1..job.progress.ckpt \subseteq AccountedRows
  BY <1>1, Constants DEF ResumeSkipsNothing, AccountedRows, Chunks
<1> QED
  BY <1>1, <1>2 DEF Accounting!GoodCheckpoint

\* Steps that touch neither rows nor checkpoint change at most the status,
\* which becomes completed only at the end of the loop.
LEMMA StatusStep ==
    ASSUME IInv, IInv', job'.progress.ckpt = job.progress.ckpt,
           AccountedRows' = AccountedRows
    PROVE  [Accounting!Next]_(Accounting!accountingVars)
<1>1. CASE job'.status = "completed" /\ job.status # "completed"
  <2>1. AccountedRows = Accounting!Rows
    BY <1>1, RowsAreChunks DEF IInv, CompletedCoversAllRows, AccountedRows
  <2>2. Accounting!Complete
    BY <1>1, <2>1 DEF Accounting!Complete, AccountedRows
  <2> QED
    BY <2>2 DEF Accounting!Next
<1>2. CASE job'.status # "completed" /\ job.status = "completed"
  BY <1>2 DEF Accounting!Next, Accounting!Reopen, AccountedRows
<1>3. CASE (job'.status = "completed") = (job.status = "completed")
  BY <1>3 DEF Accounting!accountingVars, AccountedRows
<1> QED
  BY <1>1, <1>2, <1>3

\* A step of the chunk loop accounts for one row, moves the checkpoint, or
\* does both at once.
LEMMA RowStep ==
    ASSUME IInv, IInv', NEW c \in Chunks, job'.status = job.status,
           AccountedRows' = AccountedRows \cup {c}
    PROVE  Accounting!Next
<1>1. Accounting!GoodCheckpoint(job'.progress.ckpt, AccountedRows')
  <2>1. TypeOK' /\ ResumeSkipsNothing'
    BY DEF IInv
  <2>2. job'.progress.ckpt \in 0..NChunks
    BY <2>1 DEF TypeOK, JobTypeOver, Row, Progress
  <2>3. 1..job'.progress.ckpt \subseteq AccountedRows'
    BY <2>1, <2>2, Constants DEF ResumeSkipsNothing, AccountedRows, Chunks
  <2> QED
    BY <2>2, <2>3 DEF Accounting!GoodCheckpoint
<1>2. Accounting!Account(c)
  BY <1>1 DEF Accounting!Account, AccountedRows
<1> QED
  BY <1>2, RowsAreChunks DEF Accounting!Next

LEMMA NextAccounting ==
    IInv /\ IInv' /\ [Next]_vars => [Accounting!Next]_(Accounting!accountingVars)
<1> SUFFICES ASSUME IInv, IInv', [Next]_vars
             PROVE  [Accounting!Next]_(Accounting!accountingVars)
  OBVIOUS
<1>0. TypeOK
  BY DEF IInv
<1>1. CASE JobNext /\ UNCHANGED <<reviews, errored>>
  <2>1. job'.progress = job.progress
    BY <1>0, <1>1, JobKeepsProgress DEF TypeOK, JobTypeOver
  <2>2. AccountedRows' = AccountedRows
    BY <1>1 DEF AccountedRows, Accounted
  <2> QED
    BY <2>1, <2>2, StatusStep
<1>2. ASSUME NEW r \in Runs, ChunkStep(r)
      PROVE  [Accounting!Next]_(Accounting!accountingVars)
  <2>1. CASE Persist(r)
    <3>1. PICK c \in Chunks : c = run[r].next
      BY <2>1 DEF IInv, RunInv, RunKnows, Persist
    <3>2. AccountedRows' = AccountedRows \cup {c}
      BY <1>0, <2>1, <3>1 DEF Persist, AccountedRows, Accounted, TypeOK
    <3> QED
      BY <2>1, <3>1, <3>2, RowStep DEF Persist
  <2>2. CASE ProgressWrite(r)
    <3>1. PICK c \in Chunks : c = run[r].next /\ run[r].pc = "commit"
      BY <2>2 DEF IInv, RunInv, RunKnows, ProgressWrite
    <3>2. AccountedRows' = AccountedRows \cup {c}
      <4>1. CASE run[r].ok
        <5>1. Accounted(c)
          BY <3>1, <4>1 DEF IInv, RunInv, RunKnows
        <5> QED
          BY <2>2, <4>1, <5>1 DEF ProgressWrite, AccountedRows, Accounted
      <4>2. CASE ~run[r].ok
        BY <2>2, <3>1, <4>2 DEF ProgressWrite, AccountedRows, Accounted
      <4> QED
        BY <4>1, <4>2
    <3>3. job'.status = job.status
      BY <1>0, <2>2 DEF ProgressWrite, TypeOK, Row
    <3> QED
      BY <3>1, <3>2, <3>3, RowStep
  <2>3. CASE ~Persist(r) /\ ~ProgressWrite(r)
    <3>1. UNCHANGED <<job, reviews, errored>>
      BY <1>2, <2>3 DEF ChunkStep, NextChunk, LoopEnds, InferenceFails, ProgressRead
    <3>2. AccountedRows' = AccountedRows
      BY <3>1 DEF AccountedRows, Accounted
    <3> QED
      BY <3>1, <3>2, StatusStep
  <2> QED
    BY <2>1, <2>2, <2>3
<1>3. CASE UNCHANGED vars
  <2>1. UNCHANGED <<job, reviews, errored>>
    BY <1>3 DEF vars, jobVars
  <2>2. AccountedRows' = AccountedRows
    BY <2>1 DEF AccountedRows, Accounted
  <2> QED
    BY <2>1, <2>2, StatusStep
<1> QED
  BY <1>1, <1>2, <1>3 DEF Next

\* The serial loop, with its requests, queue, two processes, crashes and
\* timeouts, implements the accounting of rows it promises.
THEOREM Implements == Spec => ImplementsAccounting
BY InitAccounting, NextAccounting, Inductive, PTL DEF Spec, ImplementsAccounting, Accounting!Spec

-----------------------------------------------------------------------------
(* One process: a refused enqueue is what makes the API process run a job   *)
(* as well; without it the tenant lock leaves one run at a time.            *)

\* A run that holds the lock is at the chunk after the checkpoint, what it
\* has read of the row is what the row still is, and only that chunk's
\* reviews may be there already.
OneRun ==
    /\ ~ sched /\ run[InProc].pc = "idle"
    /\ \A q, r \in Attempts : Holding(q) /\ Holding(r) => q = r
    /\ \A r \in Attempts :
        /\ run[r].pc \in {"start", "loop"} \cup LoopPcs => run[r].next = job.progress.ckpt + 1
        /\ run[r].pc = "commit" => run[r].seen = job.progress

Counted ==
    /\ ReworkIsOneChunk /\ CountersMatchCheckpoint
    /\ \A c \in errored : c <= job.progress.ckpt

OneInv == OneRun /\ Counted

LEMMA InitOne == ASSUME Init PROVE OneInv
<1>1. /\ job.progress = NoProgress /\ ~ sched /\ reviews = [c \in Chunks |-> 0] /\ errored = {}
      /\ \A r \in Runs : run[r].pc = "idle"
  BY DEF Init, JobInit, NewRow, NoRun, RunAt
<1>2. OneRun
  BY <1>1 DEF OneRun, Holding, Runs, LoopPcs
<1>3. Counted
  BY <1>1, FS_EmptySet DEF Counted, ReworkIsOneChunk, CountersMatchCheckpoint, NoProgress
<1> QED
  BY <1>2, <1>3 DEF OneInv

\* The lock is taken by StartRead only, when nobody has it.
LEMMA TakesLock ==
    ASSUME TypeOK, Next, NEW q \in Runs, Holding(q)', ~ Holding(q)
    PROVE  StartRead(q) /\ \A r \in Runs : r # q => run'[r] = run[r]
<1>0. run \in [Runs -> RunStateOver(LoopPcs)]
  BY DEF TypeOK, JobTypeOver
<1>1. ASSUME NEW r \in Runs, StartRead(r)
      PROVE  StartRead(q) /\ \A p \in Runs : p # q => run'[p] = run[p]
  <2>1. \A p \in Runs : p # r => run'[p] = run[p]
    BY <1>0, <1>1 DEF StartRead, Return
  <2>2. q = r
    BY <2>1 DEF Holding
  <2> QED
    BY <1>1, <2>1, <2>2
<1>2. ASSUME NEW r \in Runs, NEW pc, Goto(r, pc), pc \in {"idle", "wait"} \/ Holding(r)
      PROVE  FALSE
  BY <1>0, <1>2 DEF Goto, Holding, RunStateOver
<1>3. ASSUME NEW r \in Runs, Return(r) PROVE FALSE
  BY <1>0, <1>3 DEF Return, NoRun, RunAt, Holding
<1>4. ASSUME UNCHANGED run PROVE FALSE
  BY <1>4 DEF Holding
<1>5. ASSUME NEW r \in Runs, JobStep(r), ~ StartRead(r) PROVE FALSE
  BY <1>2, <1>3, <1>5 DEF JobStep, StartWrite, CompleteRead, CompleteWrite, FailRead, FailWrite,
     Holding
<1>6. ASSUME NEW r \in Runs, Abort(r) \/ Stall(r) PROVE FALSE
  BY <1>2, <1>3, <1>6 DEF Abort, Stall
<1>7. ASSUME NEW p \in Procs, Crash(p) PROVE FALSE
  BY <1>0, <1>7 DEF Crash, NoRun, RunAt, Holding
<1>8. ASSUME NEW r \in Runs, ChunkStep(r) PROVE FALSE
  <2>1. CASE NextChunk(r) \/ LoopEnds(r)
    BY <1>2, <1>3, <2>1 DEF NextChunk, LoopEnds, Holding
  <2>2. CASE Persist(r) \/ InferenceFails(r) \/ ProgressRead(r)
    BY <1>0, <2>2 DEF Persist, InferenceFails, ProgressRead, Holding, RunStateOver
  <2>3. CASE ProgressWrite(r)
    BY <1>0, <2>3 DEF ProgressWrite, Holding
  <2> QED
    BY <1>8, <2>1, <2>2, <2>3 DEF ChunkStep
<1>9. ASSUME NEW a \in Attempts, Deliver(a) PROVE FALSE
  BY <1>2, <1>9 DEF Deliver, Runs
<1>10. ASSUME FireInProcess \/ SkipInProcess PROVE FALSE
  BY <1>2, <1>4, <1>10 DEF FireInProcess, SkipInProcess, Runs
<1>11. ASSUME NEW u \in Users,
              CancelRead(u) \/ RetryRead(u) \/ ApiWrite(u) \/ DispatchInProcess(u)
       PROVE  FALSE
  BY <1>4, <1>11 DEF CancelRead, RetryRead, ApiWrite, CancelWrite, Unschedule, RetryWrite,
     Dispatch, DispatchInProcess
<1>12. ASSUME (\E p \in Procs : Restart(p)) \/ RecoverRead \/ RecoverWrite \/ RecoverFails
      PROVE FALSE
  BY <1>4, <1>12 DEF Restart, RecoverRead, RecoverWrite, RecoverFails
<1> QED
  BY <1>1, <1>5, <1>6, <1>7, <1>8, <1>9, <1>10, <1>11, <1>12 DEF Next, JobNext

LEMMA LockStep ==
    ASSUME TypeOK, Next, \A q, r \in Attempts : Holding(q) /\ Holding(r) => q = r
    PROVE  (\A q, r \in Attempts : Holding(q) /\ Holding(r) => q = r)'
<1> SUFFICES ASSUME NEW q \in Attempts, NEW r \in Attempts, Holding(q)', Holding(r)', q # r
             PROVE  FALSE
  OBVIOUS
<1>1. ASSUME NEW a \in Attempts, NEW b \in Attempts, a # b, Holding(a)', Holding(b)', ~ Holding(a)
      PROVE  FALSE
  <2>1. StartRead(a) /\ run'[b] = run[b]
    BY <1>1, TakesLock DEF Runs
  <2>2. Proc(a) = Proc(b) /\ b \in Runs
    BY Constants DEF Proc, Runs
  <2>3. ~ Holding(b)
    BY <2>1, <2>2 DEF StartRead, LockFree
  <2> QED
    BY <1>1, <2>1, <2>3 DEF Holding
<1> QED
  BY <1>1

\* Outside the chunk loop nothing moves the counters, and a run that begins
\* begins after the checkpoint.
LEMMA JobStepOne ==
    ASSUME ~ RedisMayFail, TypeOK, OneInv, JobNext, UNCHANGED <<reviews, errored>>
    PROVE  OneInv'
<1>1. job'.progress = job.progress /\ Next
  BY JobKeepsProgress DEF TypeOK, JobTypeOver, Next
<1>2. ~ sched' /\ run'[InProc].pc = "idle"
  <2>1. ~ sched /\ run[InProc].pc = "idle" /\ InProc \in Runs /\ InProc \notin Attempts
    BY Constants DEF OneInv, OneRun, Runs
  <2>2. ~ sched'
    BY <2>1 DEF JobNext, CancelRead, RetryRead, ApiWrite, CancelWrite, Unschedule, RetryWrite,
       Dispatch, DispatchInProcess, Deliver, FireInProcess, SkipInProcess, JobStep, StartRead,
       StartWrite, CompleteRead, CompleteWrite, FailRead, FailWrite, Abort, Stall, Crash, Restart,
       RecoverRead, RecoverWrite, RecoverFails
  <2>3. run'[InProc].pc = "idle"
    <3>1. run \in [Runs -> RunStateOver(LoopPcs)]
      BY DEF TypeOK, JobTypeOver
    <3>2. ASSUME NEW p \in Procs, Crash(p) PROVE run'[InProc].pc = "idle"
      BY <2>1, <3>1, <3>2 DEF Crash, NoRun, RunAt
    <3>3. ASSUME NEW a \in Attempts, Deliver(a) PROVE run'[InProc].pc = "idle"
      BY <2>1, <3>1, <3>3 DEF Deliver, Goto
    <3>4. ASSUME NEW r \in Runs, JobStep(r) \/ Abort(r) \/ Stall(r)
          PROVE  run'[InProc].pc = "idle"
      BY <2>1, <3>1, <3>4 DEF JobStep, StartRead, StartWrite, CompleteRead, CompleteWrite,
         FailRead, FailWrite, Abort, Stall, Holding, Goto, Return
    <3> QED
      BY <2>1, <3>2, <3>3, <3>4 DEF JobNext, CancelRead, RetryRead, ApiWrite, CancelWrite,
         Unschedule, RetryWrite, Dispatch, DispatchInProcess, FireInProcess, SkipInProcess,
         Restart, RecoverRead, RecoverWrite, RecoverFails
  <2> QED
    BY <2>2, <2>3
<1>3. (\A q, r \in Attempts : Holding(q) /\ Holding(r) => q = r)'
  BY <1>1, LockStep DEF OneInv, OneRun
<1>4. ASSUME NEW r \in Attempts
      PROVE  /\ run'[r].pc \in {"start", "loop"} \cup LoopPcs
                  => run'[r].next = job.progress.ckpt + 1
             /\ run'[r].pc = "commit" => run'[r].seen = job.progress
  <2>1. Moved(r)
    BY JobRuns DEF TypeOK, Runs
  <2> QED
    BY <2>1 DEF OneInv, OneRun, Moved, LoopPcs, ResumeAt
<1>5. OneRun'
  BY <1>1, <1>2, <1>3, <1>4 DEF OneRun, LoopPcs
<1>6. Counted'
  BY <1>1 DEF OneInv, Counted, ReworkIsOneChunk, CountersMatchCheckpoint
<1> QED
  BY <1>5, <1>6 DEF OneInv

\* Only the run that holds the lock takes a chunk's steps.
LEMMA ChunkStepOne ==
    ASSUME ~ RedisMayFail, TypeOK, RunInv, OneInv, NEW r \in Runs, ChunkStep(r)
    PROVE  OneInv'
<1>0. /\ run \in [Runs -> RunStateOver(LoopPcs)] /\ job \in Row /\ Next
      /\ reviews \in [Chunks -> Nat] /\ errored \subseteq Chunks /\ Chunks \subseteq Int
      /\ OneRun /\ Counted
  BY DEF TypeOK, JobTypeOver, Next, OneInv, Chunks
<1>1. Holding(r) /\ r \in Attempts /\ r # InProc /\ sched' = sched
  <2>1. Holding(r) /\ run[r].pc # "idle" /\ sched' = sched
    BY DEF ChunkStep, NextChunk, LoopEnds, Persist, InferenceFails, ProgressRead, ProgressWrite,
       Holding
  <2> QED
    BY <1>0, <2>1, Constants DEF OneRun, Runs
<1>2. \A q \in Runs : q # r => run'[q] = run[q]
  BY <1>0 DEF ChunkStep, NextChunk, LoopEnds, Persist, InferenceFails, ProgressRead,
     ProgressWrite, Goto, Return
<1>3. ~ sched' /\ run'[InProc].pc = "idle"
  BY <1>0, <1>1, <1>2 DEF OneRun, Runs
<1>4. (\A q, p \in Attempts : Holding(q) /\ Holding(p) => q = p)'
  BY <1>0, LockStep DEF OneRun
<1>5. \A q \in Attempts : q # r => run'[q] = run[q] /\ run[q].pc \in {"idle", "wait"}
  BY <1>0, <1>1, <1>2 DEF OneRun, Holding, Runs
<1>6. SUFFICES /\ Counted'
               /\ run'[r].pc \in {"start", "loop"} \cup LoopPcs
                    => run'[r].next = job'.progress.ckpt + 1
               /\ run'[r].pc = "commit" => run'[r].seen = job'.progress
  BY <1>3, <1>4, <1>5 DEF OneInv, OneRun, LoopPcs
<1>7. CASE NextChunk(r) \/ LoopEnds(r)
  <2>1. UNCHANGED <<job, reviews, errored>>
    BY <1>7 DEF NextChunk, LoopEnds
  <2>2. run'[r].pc \in {"idle", "infer", "complete"}
        /\ (run'[r].pc = "infer" => run'[r].next = run[r].next /\ run[r].pc = "loop")
    BY <1>0, <1>7 DEF NextChunk, LoopEnds, Goto, Return, NoRun, RunAt, RunStateOver
  <2> QED
    BY <1>0, <1>1, <2>1, <2>2
    DEF OneRun, Counted, ReworkIsOneChunk, CountersMatchCheckpoint, LoopPcs
<1>8. CASE InferenceFails(r) \/ ProgressRead(r)
  <2>1. UNCHANGED <<job, reviews, errored>>
    BY <1>8 DEF InferenceFails, ProgressRead
  <2>2. /\ run[r].pc \in LoopPcs /\ run'[r].next = run[r].next
        /\ run'[r].pc = "commit" => run'[r].seen = job.progress
    BY <1>0, <1>8 DEF InferenceFails, ProgressRead, RunStateOver, LoopPcs
  <2> QED
    BY <1>0, <1>1, <2>1, <2>2
    DEF OneRun, Counted, ReworkIsOneChunk, CountersMatchCheckpoint
<1>9. CASE Persist(r)
  <2>1. UNCHANGED <<job, errored>> /\ run[r].pc = "infer"
        /\ reviews' = [reviews EXCEPT ![run[r].next] = @ + 1]
    BY <1>9 DEF Persist
  <2>2. run'[r].pc = "progress" /\ run'[r].next = run[r].next
    BY <1>0, <1>9 DEF Persist, RunStateOver
  <2>3. run[r].next = job.progress.ckpt + 1
    BY <1>0, <1>1, <2>1 DEF OneRun, LoopPcs
  <2>4. job.progress.ckpt \in Int
    BY <1>0, Constants DEF Row, Progress
  <2>5. \A c \in Chunks : c > job.progress.ckpt + 1 => reviews'[c] = reviews[c]
    BY <1>0, <2>1, <2>3, <2>4
  <2>6. Counted'
    BY <1>0, <2>1, <2>5 DEF Counted, ReworkIsOneChunk, CountersMatchCheckpoint
  <2> QED
    BY <2>1, <2>2, <2>3, <2>6
<1>10. CASE ProgressWrite(r)
  <2>1. PICK c \in Chunks : run[r].pc = "commit" /\ c = run[r].next
    BY <1>10 DEF ProgressWrite, RunInv, RunKnows
  <2>2. c = job.progress.ckpt + 1 /\ run[r].seen = job.progress
    BY <1>0, <1>1, <2>1 DEF OneRun, LoopPcs
  <2> DEFINE p == job.progress
             ok == run[r].ok
  <2>3. /\ job' = [job EXCEPT !.progress = ApplyProgress(p, p, c, ok)]
        /\ errored' = (IF ok THEN errored ELSE errored \cup {c})
        /\ reviews' = reviews
    BY <1>10, <2>1, <2>2 DEF ProgressWrite
  <2>4. run'[r].pc = "loop" /\ run'[r].next = c + 1
    BY <1>0, <1>10, <2>1 DEF ProgressWrite, RunAt
  <2>5. /\ p \in Progress /\ p.ckpt \in Int /\ p.processed \in Int /\ p.succeeded \in Int
        /\ p.failed \in Int /\ c \in Int
    BY <1>0, Constants DEF Row, Progress
  <2>6. /\ job'.progress.ckpt = c
        /\ job'.progress.processed = p.processed + 1
        /\ job'.progress.succeeded = IF ok THEN p.succeeded + 1 ELSE p.succeeded
        /\ job'.progress.failed = IF ok THEN p.failed ELSE p.failed + 1
    BY <1>0, <2>2, <2>3, <2>5 DEF ApplyProgress, Row
  <2>7. /\ p.processed = p.ckpt /\ p.succeeded + p.failed = p.processed
        /\ Cardinality(errored) = p.failed
        /\ \A d \in errored : d <= p.ckpt
        /\ \A d \in Chunks : d > p.ckpt + 1 => reviews[d] = 0
    BY <1>0 DEF Counted, CountersMatchCheckpoint, ReworkIsOneChunk
  <2>8. Cardinality(errored') = IF ok THEN Cardinality(errored) ELSE Cardinality(errored) + 1
    <3>1. c \notin errored
      BY <2>2, <2>5, <2>7
    <3>2. IsFiniteSet(errored)
      <4>1. IsFiniteSet(Chunks)
        BY Constants, FS_Interval DEF Chunks
      <4> QED
        BY <1>0, <4>1, FS_Subset
    <3>3. Cardinality(errored \cup {c}) = Cardinality(errored) + 1
      BY <3>1, <3>2, FS_AddElement
    <3> QED
      BY <2>3, <3>3
  <2> HIDE DEF p, ok
  <2>9. CountersMatchCheckpoint'
    BY <2>2, <2>5, <2>6, <2>7, <2>8 DEF CountersMatchCheckpoint, p
  <2>10. (\A d \in errored' : d <= job'.progress.ckpt) /\ ReworkIsOneChunk'
    BY <1>0, <2>2, <2>3, <2>5, <2>6, <2>7 DEF ReworkIsOneChunk, p
  <2> QED
    BY <2>4, <2>6, <2>9, <2>10 DEF Counted
<1> QED
  BY <1>7, <1>8, <1>9, <1>10 DEF ChunkStep

LEMMA InductiveOne == ASSUME ~ RedisMayFail PROVE Spec => []OneInv
<1>1. Init => OneInv
  BY InitOne
<1>2. IInv /\ OneInv /\ [Next]_vars => OneInv'
  <2> SUFFICES ASSUME IInv, OneInv, [Next]_vars PROVE OneInv'
    OBVIOUS
  <2>1. TypeOK /\ RunInv
    BY DEF IInv
  <2>2. CASE JobNext /\ UNCHANGED <<reviews, errored>>
    BY <2>1, <2>2, JobStepOne
  <2>3. ASSUME NEW r \in Runs, ChunkStep(r) PROVE OneInv'
    BY <2>1, <2>3, ChunkStepOne
  <2>4. CASE UNCHANGED vars
    BY <2>4 DEF vars, jobVars, OneInv, OneRun, Counted, Holding, ReworkIsOneChunk,
       CountersMatchCheckpoint
  <2> QED
    BY <2>2, <2>3, <2>4 DEF Next
<1> QED
  BY <1>1, <1>2, Inductive, PTL DEF Spec

\* As long as every enqueue reaches the worker alone, the counters of a job
\* count each row up to its checkpoint once, after any number of retries,
\* crashes, timeouts and concurrent requests (apply_progress, retry_job).
THEOREM CountersExact == ASSUME ~ RedisMayFail PROVE Spec => []CountersMatchCheckpoint
<1>1. OneInv => CountersMatchCheckpoint
  BY DEF OneInv, Counted
<1> QED
  BY <1>1, InductiveOne, PTL

\* Under the same assumption an interrupted run leaves no reviews beyond the
\* chunk after the checkpoint, so that a retry repeats at most one.
THEOREM ReworkBounded == ASSUME ~ RedisMayFail PROVE Spec => []ReworkIsOneChunk
<1>1. OneInv => ReworkIsOneChunk
  BY DEF OneInv, Counted
<1> QED
  BY <1>1, InductiveOne, PTL
=============================================================================
