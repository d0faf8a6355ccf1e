-------------------------- MODULE ReanalysisProofs --------------------------
(***************************************************************************)
(* Human corrections stand: for every number of reviews, attempts and      *)
(* faults, with the job running in both processes at once, a correction    *)
(* made while no run has the review on its list is never overwritten.      *)
(***************************************************************************)
EXTENDS Reanalysis, BatchJobProofs, FiniteSetTheorems

\* A run that has a review in hand took it from its list, at an index that a
\* checkpoint can hold.
AtReview == {"infer", "rewrite", "progress", "commit"}
InHand == {"infer", "rewrite"}

WorkInv ==
    \A r \in Runs :
        /\ run[r].pc \in AtReview => run[r].next \in Chunks
        /\ run[r].pc \in InHand => work[r].id \in work[r].ids

\* A firm correction is on nobody's list, so nobody will write it.
FirmInv == \A c \in firm : \A r \in Runs : c \notin work[r].ids

IInv == TypeOK /\ WorkInv /\ FirmInv /\ FirmCorrectionsStand

LEMMA DataTypes == OldReview \in Review /\ NoWork \in Work
BY Constants DEF OldReview, Review, NoWork, Work

LEMMA InitInv == Init => IInv
<1> SUFFICES ASSUME Init PROVE IInv
  OBVIOUS
<1>1. TypeOK
  BY InitJobType, DataTypes DEF Init, TypeOK
<1>2. WorkInv
  BY DEF Init, JobInit, WorkInv, AtReview, InHand, NoRun, RunAt
<1>3. FirmInv /\ FirmCorrectionsStand
  BY DEF Init, FirmInv, FirmCorrectionsStand
<1> QED
  BY <1>1, <1>2, <1>3 DEF IInv

\* An index into a list of reviews is a number of a chunk.
LEMMA PositionType ==
    ASSUME NEW ids \in SUBSET Chunks, NEW c \in ids
    PROVE  Position(ids, c) \in Chunks
<1> DEFINE before == {d \in ids : d <= c}
<1>1. NChunks \in Nat /\ IsFiniteSet(Chunks) /\ Cardinality(Chunks) = NChunks
  BY Constants, FS_Interval DEF Chunks
<1>2. IsFiniteSet(before) /\ Cardinality(before) <= NChunks
  BY <1>1, FS_Subset
<1>3. Cardinality(before) \in Nat
  BY <1>2, FS_CardinalityType
<1>4. c \in before
  BY DEF Chunks
<1>5. Cardinality(before) # 0
  BY <1>2, <1>4, FS_EmptySet
<1> QED
  BY <1>1, <1>2, <1>3, <1>5 DEF Position, Chunks

LEMMA CandidatesType == \A rev : Candidates(rev) \subseteq Chunks
BY DEF Candidates

\* Sets of reviews are finite, and have a size.
LEMMA Sizes ==
    ASSUME NEW S \in SUBSET Chunks
    PROVE  /\ IsFiniteSet(S) /\ Cardinality(S) \in Nat
           /\ \A T \in SUBSET S : Cardinality(T) <= Cardinality(S)
<1>1. IsFiniteSet(Chunks)
  BY Constants, FS_Interval DEF Chunks
<1>2. IsFiniteSet(S)
  BY <1>1, FS_Subset
<1> QED
  BY <1>2, FS_Subset, FS_CardinalityType

LEMMA DepartsType ==
    ASSUME departures \in Nat, Departs
    PROVE  departures' \in Nat
<1>1. Candidates(review) \ Candidates(review') \in SUBSET Chunks
  BY CandidatesType
<1> QED
  BY <1>1, Sizes DEF Departs

-----------------------------------------------------------------------------
(* Steps outside the loop over the reviews.                                *)

LEMMA ForgetWork ==
    ASSUME TypeOK, EndedForget, NEW r \in Runs
    PROVE  work'[r] = work[r] \/ (work'[r] = NoWork /\ run'[r].pc = "idle")
<1>1. work' = [q \in Runs |-> IF run'[q].pc = "idle" THEN NoWork ELSE work[q]]
  BY DEF EndedForget
<1> QED
  BY <1>1

LEMMA ForgetType ==
    ASSUME TypeOK, EndedForget
    PROVE  work' \in [Runs -> Work]
<1>1. work \in [Runs -> Work] /\ NoWork \in Work
  BY DataTypes DEF TypeOK
<1>2. work' = [r \in Runs |-> IF run'[r].pc = "idle" THEN NoWork ELSE work[r]]
  BY DEF EndedForget
<1> QED
  BY <1>1, <1>2

LEMMA ForgetFirm ==
    ASSUME TypeOK, FirmInv, EndedForget, UNCHANGED firm
    PROVE  FirmInv'
<1> SUFFICES ASSUME NEW c \in firm, NEW r \in Runs PROVE c \notin work'[r].ids
  BY DEF FirmInv
<1> QED
  BY ForgetWork DEF FirmInv, NoWork

LEMMA JobInv ==
    ASSUME IInv, JobNext, EndedForget, UNCHANGED <<review, done, corrected, firm, departures>>
    PROVE  IInv'
<1>0. TypeOK /\ WorkInv /\ FirmInv /\ FirmCorrectionsStand
  BY DEF IInv
<1>1. TypeOK'
  BY <1>0, JobType, ForgetType DEF TypeOK
<1>2. WorkInv'
  <2> SUFFICES ASSUME NEW r \in Runs, run'[r].pc \in AtReview
               PROVE  /\ run'[r].next \in Chunks
                      /\ run'[r].pc \in InHand => work'[r].id \in work'[r].ids
    BY DEF WorkInv, AtReview, InHand
  <2>1. run'[r] = run[r]
    BY <1>0, JobRuns DEF TypeOK, Moved, AtReview
  <2>2. work'[r] = work[r]
    BY <1>0, ForgetWork DEF AtReview
  <2> QED
    BY <1>0, <2>1, <2>2 DEF WorkInv
<1>3. FirmInv'
  BY <1>0, ForgetFirm
<1>4. FirmCorrectionsStand'
  BY <1>0 DEF FirmCorrectionsStand
<1> QED
  BY <1>1, <1>2, <1>3, <1>4 DEF IInv

-----------------------------------------------------------------------------
(* A person's correction.                                                  *)

LEMMA CorrectInv ==
    ASSUME IInv, NEW c \in Correctable, Correct(c)
    PROVE  IInv'
<1>0. TypeOK /\ WorkInv /\ FirmInv /\ FirmCorrectionsStand
  BY DEF IInv
<1>1. review' \in [Chunks -> Review]
  BY <1>0 DEF Correct, TypeOK, Review
<1>2. TypeOK'
  BY <1>0, <1>1, JobIdleType, DepartsType DEF Correct, TypeOK
<1>3. WorkInv'
  BY <1>0 DEF Correct, WorkInv, jobVars
<1>4. FirmInv'
  BY <1>0 DEF Correct, FirmInv
<1>5. review'[c].by = "person" /\ review'[c].trace
  BY <1>0, ReviewAssumption DEF Correct, TypeOK, Review
<1>6. \A d \in Chunks : d # c => review'[d] = review[d]
  BY <1>0 DEF Correct, TypeOK
<1>7. firm' \subseteq firm \cup {c} /\ firm \subseteq Chunks
  BY <1>0 DEF Correct, TypeOK
<1>8. FirmCorrectionsStand'
  BY <1>0, <1>5, <1>6, <1>7 DEF FirmCorrectionsStand
<1> QED
  BY <1>2, <1>3, <1>4, <1>8 DEF IInv

-----------------------------------------------------------------------------
(* The loop over the reviews.                                              *)

\* What every one of its steps but RewriteCommit leaves alone.
LEMMA QuietInv ==
    ASSUME IInv, UNCHANGED <<review, firm>>
    PROVE  FirmCorrectionsStand'
BY DEF IInv, FirmCorrectionsStand

LEMMA LoopType ==
    ASSUME IInv, NEW r \in Runs, ReviewStep(r)
    PROVE  TypeOK'
<1>0. TypeOK /\ WorkInv
  BY DEF IInv
<1>j. /\ JobTypeOver(LoopPcs) /\ job \in Row /\ job.progress \in Progress
      /\ run[r] \in RunStateOver(LoopPcs)
  BY <1>0 DEF TypeOK, JobTypeOver, Row
<1>g. ASSUME NEW pc \in {"infer", "rewrite", "progress", "complete", "fail"}, Goto(r, pc)
      PROVE  run' \in [Runs -> RunStateOver(LoopPcs)]
  BY <1>j, <1>g, GotoType DEF LoopPcs
<1>1. CASE NoEngine(r) \/ ListEnds(r) \/ LlmFails(r)
  BY <1>0, <1>1, <1>g
     DEF TypeOK, JobTypeOver, NoEngine, ListEnds, LlmFails, dataVars
<1>2. CASE ListCandidates(r)
  <2>1. work' \in [Runs -> Work]
    BY <1>0, <1>2, CandidatesType DEF ListCandidates, TypeOK, Work
  <2> QED
    BY <1>0, <1>2, <2>1, JobIdleType DEF ListCandidates, TypeOK
<1>3. CASE NextReview(r)
  <2>1. CASE Return(r) /\ EndedForget
    <3>1. /\ run' \in [Runs -> RunStateOver(LoopPcs)]
          /\ arq' \in [Attempts -> {"none", "queued", "done"}]
      BY <1>j, <2>1, ReturnType
    <3> QED
      BY <1>0, <1>3, <2>1, <3>1, ForgetType DEF NextReview, TypeOK, JobTypeOver
  <2>2. ASSUME NEW c \in work[r].ids, Goto(r, "infer"),
               work' = [work EXCEPT ![r].id = c], UNCHANGED arq
        PROVE  TypeOK'
    <3>1. c \in 0..NChunks
      BY <1>0, Constants DEF TypeOK, Work, Chunks
    <3>2. work' \in [Runs -> Work]
      BY <1>0, <2>2, <3>1 DEF TypeOK, Work
    <3> QED
      BY <1>0, <1>3, <1>g, <2>2, <3>2 DEF NextReview, TypeOK, JobTypeOver
  <2> QED
    BY <1>3, <2>1, <2>2 DEF NextReview
<1>4. CASE RewriteRead(r)
  <2>1. work[r].id \in Chunks
    BY <1>0, <1>4 DEF RewriteRead, WorkInv, InHand, TypeOK, Work
  <2>2. work' \in [Runs -> Work]
    BY <1>0, <1>4, <2>1 DEF RewriteRead, TypeOK, Work
  <2> QED
    BY <1>0, <1>4, <1>g, <2>2 DEF RewriteRead, TypeOK, JobTypeOver
<1>5. CASE RewriteCommit(r)
  <2> DEFINE c == work[r].id
             new == Rewritten(work[r].row, c)
  <2>1. work[r].id \in Chunks /\ work[r].row \in Review
    BY <1>0, <1>5 DEF RewriteCommit, WorkInv, InHand, TypeOK, Work
  <2>2. new \in Review
    BY <2>1 DEF Rewritten, Review
  <2>3. review' \in [Chunks -> Review]
    <3>1. review' = [review EXCEPT ![c] = new] \/ review' = review
      BY <1>5 DEF RewriteCommit
    <3> HIDE DEF new
    <3> QED
      BY <1>0, <2>1, <2>2, <3>1 DEF TypeOK
  <2>4. done' = done \cup {c} /\ Goto(r, "progress")
        /\ UNCHANGED <<job, arq, sched, up, req, faults, corrected, firm>> /\ Departs
    BY <1>5 DEF RewriteCommit
  <2>5. work' = [work EXCEPT ![r].id = 0, ![r].row = OldReview]
    BY <1>5 DEF RewriteCommit
  <2>6. work' \in [Runs -> Work]
    <3> DEFINE w == [work[r] EXCEPT !.id = 0, !.row = OldReview]
    <3>a. 0 \in 0..NChunks /\ OldReview \in Review /\ work[r] \in Work
      BY <1>0, DataTypes, Constants DEF TypeOK
    <3>1. w \in Work
      BY <3>a, Zenon DEF Work
    <3>2. work' = [work EXCEPT ![r] = w]
      BY <2>5, Zenon
    <3> HIDE DEF w
    <3> QED
      BY <1>0, <3>1, <3>2 DEF TypeOK
  <2> QED
    BY <1>0, <1>g, <2>1, <2>3, <2>4, <2>6, DepartsType DEF TypeOK, JobTypeOver
<1>6. CASE ProgressRead(r)
  <2>1. run' \in [Runs -> RunStateOver(LoopPcs)]
    BY <1>0, <1>j, <1>6 DEF ProgressRead, TypeOK, JobTypeOver, RunStateOver, LoopPcs
  <2> QED
    BY <1>0, <1>6, <2>1 DEF ProgressRead, TypeOK, JobTypeOver, dataVars
<1>7. CASE ProgressWrite(r)
  <2> DEFINE p == ApplyProgress(job.progress, run[r].seen, run[r].next, TRUE)
  <2>1. run[r].next \in Chunks /\ run[r].seen \in Progress
    BY <1>0, <1>j, <1>7 DEF ProgressWrite, WorkInv, AtReview, RunStateOver
  <2>2. p \in Progress
    BY <1>j, <2>1, ApplyType
  <2>3. job' \in Row
    <3>1. job' = [job EXCEPT !.progress = p]
      BY <1>7 DEF ProgressWrite
    <3> HIDE DEF p
    <3> QED
      BY <1>j, <2>2, <3>1 DEF Row
  <2>4. RunAt("loop", run[r].next + 1) \in RunStateOver(LoopPcs)
    BY <2>1, Constants DEF RunAt, RunStateOver, Chunks
  <2>5. run' \in [Runs -> RunStateOver(LoopPcs)]
    BY <1>0, <1>7, <2>4 DEF ProgressWrite, TypeOK, JobTypeOver
  <2> QED
    BY <1>0, <1>7, <2>3, <2>5 DEF ProgressWrite, TypeOK, JobTypeOver, dataVars
<1> QED
  BY <1>1, <1>2, <1>3, <1>4, <1>5, <1>6, <1>7 DEF ReviewStep

\* The other runs, their lists and indices stay as they are.
LEMMA OtherRuns ==
    ASSUME TypeOK, NEW r \in Runs, ReviewStep(r), NEW q \in Runs, q # r
    PROVE  run'[q] = run[q] /\ (work'[q] = work[q] \/ (work'[q] = NoWork /\ run'[q].pc = "idle"))
<1>0. run \in [Runs -> RunStateOver(LoopPcs)] /\ work \in [Runs -> Work]
  BY DEF TypeOK, JobTypeOver
<1>1. run'[q] = run[q]
  BY <1>0 DEF ReviewStep, NoEngine, ListCandidates, NextReview, ListEnds, LlmFails, RewriteRead,
     RewriteCommit, ProgressRead, ProgressWrite, Goto, Return, jobVars
<1>2. CASE EndedForget
  BY <1>1, <1>2, ForgetWork
<1>3. CASE NextReview(r) /\ ~EndedForget
  <2>1. PICK c \in work[r].ids : work' = [work EXCEPT ![r].id = c]
    BY <1>3 DEF NextReview
  <2> QED
    BY <1>0, <1>1, <2>1 DEF Work
<1>4. CASE ~NextReview(r)
  BY <1>0, <1>1, <1>4 DEF ReviewStep, NoEngine, ListCandidates, ListEnds, LlmFails, RewriteRead,
     RewriteCommit, ProgressRead, ProgressWrite, dataVars, Work
<1> QED
  BY <1>1, <1>2, <1>3, <1>4

LEMMA LoopInv ==
    ASSUME IInv, NEW r \in Runs, ReviewStep(r)
    PROVE  WorkInv' /\ FirmInv' /\ FirmCorrectionsStand'
<1>0. TypeOK /\ WorkInv /\ FirmInv /\ FirmCorrectionsStand
  BY DEF IInv
<1>t. /\ run \in [Runs -> RunStateOver(LoopPcs)] /\ work \in [Runs -> Work]
      /\ run[r] \in RunStateOver(LoopPcs) /\ work[r] \in Work
  BY <1>0 DEF TypeOK, JobTypeOver
<1>f. UNCHANGED firm
  BY DEF ReviewStep, NoEngine, ListCandidates, NextReview, ListEnds, LlmFails, RewriteRead,
     RewriteCommit, ProgressRead, ProgressWrite, dataVars
\* It is enough to follow the run that moves.
<1>o. ASSUME /\ run'[r].pc \in AtReview => run'[r].next \in Chunks
             /\ run'[r].pc \in InHand => work'[r].id \in work'[r].ids
      PROVE  WorkInv'
  <2> SUFFICES ASSUME NEW q \in Runs, run'[q].pc \in AtReview
               PROVE  /\ run'[q].next \in Chunks
                      /\ run'[q].pc \in InHand => work'[q].id \in work'[q].ids
    BY DEF WorkInv, AtReview, InHand
  <2>1. CASE q = r
    BY <1>o, <2>1
  <2>2. CASE q # r
    <3>1. run'[q] = run[q] /\ work'[q] = work[q]
      BY <1>0, <2>2, OtherRuns DEF AtReview
    <3> QED
      BY <1>0, <3>1 DEF WorkInv
  <2> QED
    BY <2>1, <2>2
<1>p. ASSUME \A c \in firm : c \notin work'[r].ids
      PROVE  FirmInv'
  <2> SUFFICES ASSUME NEW c \in firm, NEW q \in Runs PROVE c \notin work'[q].ids
    BY <1>f DEF FirmInv
  <2>1. CASE q = r
    BY <1>p, <2>1
  <2>2. CASE q # r
    BY <1>0, <2>2, OtherRuns DEF FirmInv, NoWork
  <2> QED
    BY <2>1, <2>2
<1>1. CASE NoEngine(r) \/ ListEnds(r) \/ LlmFails(r)
  <2>1. run'[r].pc \notin AtReview /\ UNCHANGED <<work, review>>
    BY <1>t, <1>1 DEF NoEngine, ListEnds, LlmFails, Goto, AtReview, dataVars, RunStateOver
  <2> QED
    BY <1>0, <1>f, <1>o, <1>p, <2>1, QuietInv DEF FirmInv, AtReview, InHand
<1>2. CASE ListCandidates(r)
  <2>1. run'[r].pc \notin AtReview /\ UNCHANGED review
    BY <1>t, <1>2 DEF ListCandidates, AtReview, jobVars
  <2>2. work'[r].ids = Candidates(review)
    BY <1>t, <1>2 DEF ListCandidates, Work
  <2>3. \A c \in firm : c \notin work'[r].ids
    BY <1>0, <2>2 DEF FirmCorrectionsStand, Candidates
  <2> QED
    BY <1>f, <1>o, <1>p, <2>1, <2>3, QuietInv DEF AtReview, InHand
<1>3. CASE NextReview(r)
  <2>1. CASE Return(r) /\ EndedForget
    <3>1. run'[r].pc = "idle" /\ work'[r] = NoWork /\ UNCHANGED review
      BY <1>t, <1>3, <2>1 DEF Return, NoRun, RunAt, EndedForget, NextReview
    <3> QED
      BY <1>f, <1>o, <1>p, <3>1, QuietInv DEF AtReview, InHand, NoWork
  <2>2. ASSUME NEW c \in work[r].ids, Position(work[r].ids, c) = run[r].next,
               Goto(r, "infer"), work' = [work EXCEPT ![r].id = c]
        PROVE  WorkInv' /\ FirmInv' /\ FirmCorrectionsStand'
    <3>1. run[r].next \in Chunks
      BY <1>t, <2>2, PositionType DEF Work
    <3>2. run'[r].next = run[r].next
      BY <1>t, <2>2 DEF Goto, RunStateOver
    <3>3. work'[r].ids = work[r].ids /\ work'[r].id = c /\ UNCHANGED review
      BY <1>t, <1>3, <2>2 DEF Work, NextReview
    <3> QED
      BY <1>0, <1>f, <1>o, <1>p, <2>2, <3>1, <3>2, <3>3, QuietInv DEF FirmInv
  <2> QED
    BY <1>3, <2>1, <2>2 DEF NextReview
<1>4. CASE RewriteRead(r) \/ ProgressRead(r)
  <2>1. /\ run[r].pc \in AtReview /\ run'[r].next = run[r].next
        /\ run'[r].pc \in InHand => run[r].pc \in InHand
        /\ work'[r].id = work[r].id /\ work'[r].ids = work[r].ids /\ UNCHANGED review
    BY <1>t, <1>4 DEF RewriteRead, ProgressRead, Goto, AtReview, InHand, RunStateOver, Work, dataVars
  <2> QED
    BY <1>0, <1>f, <1>o, <1>p, <2>1, QuietInv DEF WorkInv, FirmInv
<1>5. CASE RewriteCommit(r)
  <2>1. run[r].pc \in AtReview /\ run'[r].pc = "progress" /\ run'[r].next = run[r].next
    BY <1>t, <1>5 DEF RewriteCommit, Goto, AtReview, RunStateOver
  <2>a. work'[r].ids = work[r].ids
    BY <1>t, <1>5 DEF RewriteCommit, Work
  <2>2. work[r].id \notin firm
    BY <1>0, <1>5 DEF RewriteCommit, WorkInv, FirmInv, InHand
  <2>3. \A d \in firm : review'[d] = review[d]
    BY <1>0, <1>5, <2>2 DEF RewriteCommit, TypeOK
  <2>4. FirmCorrectionsStand'
    BY <1>0, <1>f, <2>3 DEF FirmCorrectionsStand
  <2> QED
    BY <1>0, <1>o, <1>p, <2>1, <2>a, <2>4 DEF WorkInv, FirmInv, InHand
<1>6. CASE ProgressWrite(r)
  <2>1. run'[r].pc = "loop" /\ UNCHANGED <<work, review>>
    BY <1>t, <1>6 DEF ProgressWrite, RunAt, dataVars
  <2> QED
    BY <1>0, <1>f, <1>o, <1>p, <2>1, QuietInv DEF AtReview, InHand, FirmInv
<1> QED
  BY <1>1, <1>2, <1>3, <1>4, <1>5, <1>6 DEF ReviewStep

LEMMA NextInv == IInv /\ [Next]_vars => IInv'
<1> SUFFICES ASSUME IInv, [Next]_vars PROVE IInv'
  OBVIOUS
<1>1. CASE JobNext /\ EndedForget /\ UNCHANGED <<review, done, corrected, firm, departures>>
  BY <1>1, JobInv
<1>2. ASSUME NEW r \in Runs, ReviewStep(r) PROVE IInv'
  BY <1>2, LoopType, LoopInv DEF IInv
<1>3. ASSUME NEW c \in Correctable, Correct(c) PROVE IInv'
  BY <1>3, CorrectInv
<1>4. CASE UNCHANGED vars
  <2>1. TypeOK'
    BY <1>4, JobIdleType DEF IInv, TypeOK, vars, dataVars
  <2> QED
    BY <1>4, <2>1 DEF IInv, WorkInv, FirmInv, FirmCorrectionsStand, vars, dataVars, jobVars
<1> QED
  BY <1>1, <1>2, <1>3, <1>4 DEF Next

-----------------------------------------------------------------------------
(* Theorems.                                                               *)

\* The strengthening itself is invariant.
THEOREM Inductive == Spec => []IInv
BY InitInv, NextInv, PTL DEF Spec

\* Every reachable state is well typed (TypeOK).
THEOREM TypeCorrect == Spec => []TypeOK
<1>1. IInv => TypeOK
  BY DEF IInv
<1> QED
  BY <1>1, Inductive, PTL

\* No attempt of a re-analysis, in either process, overwrites the values or
\* the trace of a correction made while no run had the review on its list
\* (candidate_stmt, _rewritten_overrides, correct_review).
THEOREM CorrectionsStand == Spec => []FirmCorrectionsStand
<1>1. IInv => FirmCorrectionsStand
  BY DEF IInv
<1> QED
  BY <1>1, Inductive, PTL

-----------------------------------------------------------------------------
(* What a retry leaves out.  The argument is about a list of reviews and   *)
(* an index into it, wherever the list comes from.                         *)

\* Reviews that nobody has processed.
Undone == Chunks \ (done \cup corrected)

\* Undone reviews are all on the list; those the index has passed, and what
\* has left the candidates since the list was made, are n at most.
Lag(ids, k, undone, candidates, n) ==
    /\ undone \subseteq ids
    /\ Cardinality({c \in undone : Position(ids, c) <= k})
         + Cardinality(ids \ candidates) <= n

Behind(ids, k) == Lag(ids, k, Undone, Candidates(review), departures)

\* What a run knows of its list and index.
RunSkips(r) ==
    /\ run[r].pc \in {"idle", "wait", "start"} => ~work[r].listed
    /\ run[r].pc \in {"start", "loop"} /\ ~work[r].listed
         => Behind(Candidates(review), run[r].next - 1)
    /\ run[r].pc \in AtReview => work[r].listed
    /\ run[r].pc \in AtReview \cup {"loop"} /\ work[r].listed
         => Behind(work[r].ids, run[r].next - 1)
    /\ run[r].pc \in InHand => Position(work[r].ids, work[r].id) = run[r].next
    /\ run[r].pc \in {"progress", "commit"}
         => \A c \in Undone : Position(work[r].ids, c) # run[r].next
    /\ run[r].pc \in {"complete", "completing"} => Cardinality(Undone) <= departures

SkipInv ==
    /\ Undone \subseteq Candidates(review)
    /\ \A c \in corrected \ done : review[c].trace
    /\ Behind(Candidates(review), job.progress.ckpt)
    /\ job.status = "completed" => Cardinality(Undone) <= departures
    /\ \A r \in Runs : RunSkips(r)

\* An index is a number, and grows along the list.
LEMMA Positions ==
    ASSUME NEW ids \in SUBSET Chunks
    PROVE  /\ \A c \in Chunks : Position(ids, c) \in Nat /\ Position(ids, c) <= Cardinality(ids)
           /\ \A c, d \in ids : c # d => Position(ids, c) # Position(ids, d)
<1> DEFINE upto(c) == {d \in ids : d <= c}
<1>1. \A c \in Chunks : upto(c) \in SUBSET Chunks /\ upto(c) \in SUBSET ids
  OBVIOUS
<1>2. ASSUME NEW c \in ids, NEW d \in ids, c < d
      PROVE  Position(ids, c) # Position(ids, d)
  <2>1. c \in Int /\ d \in Int
    BY Constants DEF Chunks
  <2>2. upto(c) \subseteq upto(d) /\ d \in upto(d) /\ d \notin upto(c)
    <3>1. \A e \in ids : e \in Int
      BY Constants DEF Chunks
    <3>2. \A e \in ids : e <= c => e <= d
      BY <1>2, <2>1, <3>1
    <3>3. d <= d /\ ~(d <= c)
      BY <1>2, <2>1
    <3> QED
      BY <3>2, <3>3
  <2>3. IsFiniteSet(upto(d))
    BY <1>1, Sizes
  <2>4. Cardinality(upto(c)) # Cardinality(upto(d))
    <3> HIDE DEF upto
    <3> QED
      BY <2>2, <2>3, FS_Subset
  <2> QED
    BY <2>4 DEF Position
<1>3. \A c, d \in ids : c # d => c < d \/ d < c
  BY Constants DEF Chunks
<1>4. \A c \in Chunks : Position(ids, c) = Cardinality(upto(c))
  BY DEF Position
<1>5. \A c \in Chunks : Cardinality(upto(c)) \in Nat /\ Cardinality(upto(c)) <= Cardinality(ids)
  BY <1>1, Sizes
<1> QED
  BY <1>2, <1>3, <1>4, <1>5

\* What is missing from a list moves a review down by no more than its size.
LEMMA PositionShift ==
    ASSUME NEW ids \in SUBSET Chunks, NEW jds \in SUBSET Chunks, NEW c \in Chunks
    PROVE  Position(ids, c) <= Position(jds, c) + Cardinality(ids \ jds)
<1> DEFINE A == {d \in ids : d <= c}
           B == {d \in jds : d <= c}
           D == ids \ jds
<1>1. A \in SUBSET Chunks /\ B \in SUBSET Chunks /\ D \in SUBSET Chunks
  OBVIOUS
<1>2. A \subseteq B \cup D /\ B \cup D \in SUBSET Chunks /\ B \cap D \in SUBSET Chunks
  OBVIOUS
<1>3. IsFiniteSet(B) /\ IsFiniteSet(D)
  BY <1>1, Sizes
<1>4. Cardinality(B \cup D) = Cardinality(B) + Cardinality(D) - Cardinality(B \cap D)
  BY <1>3, FS_Union
<1>5. Cardinality(A) <= Cardinality(B \cup D)
  BY <1>2, Sizes
<1>6. /\ Cardinality(A) \in Nat /\ Cardinality(B) \in Nat /\ Cardinality(D) \in Nat
      /\ Cardinality(B \cap D) \in Nat
  BY <1>1, <1>2, Sizes
<1>7. Position(ids, c) = Cardinality(A) /\ Position(jds, c) = Cardinality(B)
  BY DEF Position
<1> HIDE DEF A, B, D
<1> QED
  BY <1>4, <1>5, <1>6, <1>7 DEF D

\* Each index of a list has one review.
LEMMA Window ==
    ASSUME NEW ids \in SUBSET Chunks, NEW S \in SUBSET ids, NEW k \in Int, NEW n \in Nat,
           \A c \in S : k < Position(ids, c) /\ Position(ids, c) <= k + n
    PROVE  Cardinality(S) <= n
<1> DEFINE T == (k + 1)..(k + n)
           f == [c \in S |-> Position(ids, c)]
<1>1. IsFiniteSet(T) /\ Cardinality(T) = n
  BY FS_Interval
<1>2. \A c \in S : Position(ids, c) \in T
  <2>1. \A c \in S : c \in Chunks /\ Position(ids, c) \in Nat
    BY Positions
  <2> QED
    BY <2>1
<1>3. f \in [S -> T]
  BY <1>2
<1>4. \A c, d \in S : c # d => f[c] # f[d]
  BY Positions
<1>5. f \in Injection(S, T)
  BY <1>3, <1>4 DEF Injection, IsInjective
<1> QED
  BY <1>1, <1>5, FS_Injection

\* The bound holds on while reviews are processed, and leave or return.
LEMMA LagStays ==
    ASSUME NEW ids \in SUBSET Chunks, NEW k \in Int, NEW n \in Nat,
           NEW undone \in SUBSET Chunks, NEW undone2 \in SUBSET undone,
           NEW cands \in SUBSET Chunks, NEW cands2 \in SUBSET Chunks,
           Lag(ids, k, undone, cands, n)
    PROVE  Lag(ids, k, undone2, cands2, n + Cardinality(cands \ cands2))
<1> DEFINE P == {c \in undone : Position(ids, c) <= k}
           Q == {c \in undone2 : Position(ids, c) <= k}
           D == ids \ cands
           E == ids \ cands2
           G == cands \ cands2
<1>1. /\ P \in SUBSET Chunks /\ Q \in SUBSET P
      /\ D \in SUBSET Chunks /\ E \in SUBSET (D \cup G) /\ G \in SUBSET Chunks
      /\ D \cup G \in SUBSET Chunks /\ D \cap G \in SUBSET Chunks
  OBVIOUS
<1>2. /\ Cardinality(P) \in Nat /\ Cardinality(Q) \in Nat /\ Cardinality(D) \in Nat
      /\ Cardinality(E) \in Nat /\ Cardinality(G) \in Nat /\ Cardinality(D \cap G) \in Nat
      /\ Cardinality(Q) <= Cardinality(P) /\ Cardinality(E) <= Cardinality(D \cup G)
  BY <1>1, Sizes
<1>3. Cardinality(D \cup G) = Cardinality(D) + Cardinality(G) - Cardinality(D \cap G)
  BY <1>1, Sizes, FS_Union
<1>4. Cardinality(P) + Cardinality(D) <= n
  BY DEF Lag
<1>5. undone2 \subseteq ids
  BY DEF Lag
<1>6. Lag(ids, k, undone2, cands2, n + Cardinality(G))
        <=> Cardinality(Q) + Cardinality(E) <= n + Cardinality(G)
  BY <1>5 DEF Lag
<1> HIDE DEF P, Q, D, E, G
<1>7. Cardinality(Q) + Cardinality(E) <= n + Cardinality(G)
  BY <1>2, <1>3, <1>4
<1> QED
  BY <1>6, <1>7 DEF G

\* The bound for a list is one for the candidates there are now.
LEMMA LagNow ==
    ASSUME NEW ids \in SUBSET Chunks, NEW k \in Int, NEW n \in Nat,
           NEW cands \in SUBSET Chunks, NEW undone \in SUBSET cands,
           Lag(ids, k, undone, cands, n)
    PROVE  Lag(cands, k, undone, cands, n)
<1> DEFINE P == {c \in undone : Position(ids, c) <= k}
           Q == {c \in undone : Position(cands, c) <= k}
           W == {c \in undone : k < Position(ids, c) /\ Position(cands, c) <= k}
           d == Cardinality(ids \ cands)
<1>1. /\ P \in SUBSET Chunks /\ W \in SUBSET Chunks /\ Q \in SUBSET Chunks
      /\ undone \subseteq ids /\ W \in SUBSET ids /\ ids \ cands \in SUBSET Chunks
      /\ P \cup W \in SUBSET Chunks /\ P \cap W \in SUBSET Chunks
  BY DEF Lag
<1>2. d \in Nat
  BY <1>1, Sizes
<1>3. \A c \in Chunks : /\ Position(ids, c) \in Nat /\ Position(cands, c) \in Nat
                        /\ Position(ids, c) <= Position(cands, c) + d
  BY Positions, PositionShift
<1> HIDE DEF d
<1>4. Cardinality(W) <= d
  <2>1. \A c \in W : k < Position(ids, c) /\ Position(ids, c) <= k + d
    BY <1>1, <1>2, <1>3
  <2> HIDE DEF W
  <2> QED
    BY <1>1, <1>2, <2>1, Window
<1>5. Q \in SUBSET (P \cup W)
  BY <1>1, <1>3
<1> HIDE DEF P, Q, W
<1>6. /\ Cardinality(P) \in Nat /\ Cardinality(Q) \in Nat /\ Cardinality(W) \in Nat
      /\ Cardinality(P \cap W) \in Nat /\ Cardinality(Q) <= Cardinality(P \cup W)
  BY <1>1, <1>5, Sizes
<1>7. Cardinality(P \cup W) = Cardinality(P) + Cardinality(W) - Cardinality(P \cap W)
  BY <1>1, Sizes, FS_Union
<1>8. Cardinality(P) + d <= n
  BY DEF Lag, P, d
<1>9. Cardinality(Q) <= n
  BY <1>2, <1>4, <1>6, <1>7, <1>8
<1>10. Cardinality(cands \ cands) = 0
  BY FS_EmptySet
<1> QED
  BY <1>6, <1>9, <1>10 DEF Lag, Q

\* The index passes a review that has been processed.
LEMMA LagNext ==
    ASSUME NEW ids \in SUBSET Chunks, NEW k \in Int, NEW undone \in SUBSET Chunks,
           NEW cands, NEW n, Lag(ids, k, undone, cands, n),
           \A c \in undone : Position(ids, c) # k + 1
    PROVE  Lag(ids, k + 1, undone, cands, n)
<1>1. \A c \in undone : Position(ids, c) \in Nat
  BY Positions
<1>2. {c \in undone : Position(ids, c) <= k + 1} = {c \in undone : Position(ids, c) <= k}
  BY <1>1
<1> QED
  BY <1>2 DEF Lag

\* At the end of the list the index has passed all.
LEMMA LagEnds ==
    ASSUME NEW ids \in SUBSET Chunks, NEW k \in Int, NEW undone \in SUBSET Chunks,
           NEW cands, NEW n \in Nat, Lag(ids, k, undone, cands, n), k >= Cardinality(ids)
    PROVE  Cardinality(undone) <= n
<1>1. Cardinality(ids) \in Nat /\ \A c \in undone : Position(ids, c) \in Nat
                               /\ Position(ids, c) <= Cardinality(ids)
  BY Sizes, Positions
<1>2. {c \in undone : Position(ids, c) <= k} = undone
  BY <1>1
<1>3. ids \ cands \in SUBSET Chunks
  OBVIOUS
<1>4. Cardinality(ids \ cands) \in Nat /\ Cardinality(undone) \in Nat
  BY <1>3, Sizes
<1> QED
  BY <1>2, <1>4 DEF Lag

-----------------------------------------------------------------------------
(* Every step keeps the bounds.                                            *)

\* No step makes a review undone, or takes an undone one off the list.
Shrinks ==
    /\ Departs
    /\ Undone' \subseteq Undone
    /\ Undone' \subseteq Candidates(review')
    /\ \A c \in corrected' \ done' : review'[c].trace

LEMMA QuietShrinks ==
    ASSUME SkipInv, TypeOK, UNCHANGED <<review, done, corrected, departures>>
    PROVE  Shrinks
<1>1. Cardinality(Candidates(review) \ Candidates(review)) = 0
  BY FS_EmptySet
<1> QED
  BY <1>1 DEF SkipInv, TypeOK, Shrinks, Departs, Undone

LEMMA StepShrinks ==
    ASSUME IInv, SkipInv, Next
    PROVE  Shrinks
<1>0. TypeOK /\ WorkInv
  BY DEF IInv
<1>1. CASE UNCHANGED <<review, done, corrected, departures>>
  BY <1>0, <1>1, QuietShrinks
<1>2. ASSUME NEW c \in Correctable, Correct(c) PROVE Shrinks
  <2>1. c \in Chunks /\ \A d \in Chunks \ {c} : review'[d] = review[d]
    BY <1>0, <1>2, ReviewAssumption DEF Correct, TypeOK
  <2>2. review'[c].trace
    BY <1>0, <1>2, <2>1 DEF Correct, TypeOK, Review
  <2>3. corrected' = corrected \cup {c} /\ done' = done /\ Departs
    BY <1>2 DEF Correct
  <2>4. Undone' = Undone \ {c}
    BY <2>3 DEF Undone
  <2>5. Undone' \subseteq Candidates(review')
    BY <2>1, <2>4 DEF SkipInv, Candidates, Undone
  <2>6. \A d \in corrected' \ done' : review'[d].trace
    BY <1>0, <2>1, <2>2, <2>3 DEF SkipInv, TypeOK
  <2> QED
    BY <2>3, <2>4, <2>5, <2>6 DEF Shrinks
<1>3. ASSUME NEW r \in Runs, RewriteCommit(r) PROVE Shrinks
  <2> DEFINE c == work[r].id
  <2>1. c \in Chunks
    BY <1>0, <1>3 DEF RewriteCommit, WorkInv, InHand, TypeOK, Work
  <2>2. \A d \in Chunks \ {c} : review'[d] = review[d]
    BY <1>0, <1>3 DEF RewriteCommit, TypeOK
  <2>3. corrected' = corrected /\ done' = done \cup {c} /\ Departs
    BY <1>3 DEF RewriteCommit
  <2> HIDE DEF c
  <2>4. Undone' = Undone \ {c}
    BY <2>3 DEF Undone
  <2>5. Undone' \subseteq Candidates(review')
    BY <2>2, <2>4 DEF SkipInv, Candidates, Undone
  <2>6. \A d \in corrected' \ done' : review'[d].trace
    BY <1>0, <2>2, <2>3 DEF SkipInv, TypeOK
  <2> QED
    BY <2>3, <2>4, <2>5, <2>6 DEF Shrinks
<1> QED
  BY <1>1, <1>2, <1>3 DEF Next, ReviewStep, NoEngine, ListCandidates, NextReview, ListEnds,
     LlmFails, RewriteRead, ProgressRead, ProgressWrite, dataVars

LEMMA Subsets ==
    ASSUME TypeOK
    PROVE  /\ Undone \in SUBSET Chunks /\ Candidates(review) \in SUBSET Chunks
           /\ Candidates(review') \in SUBSET Chunks /\ departures \in Nat
           /\ \A r \in Runs : work[r].ids \in SUBSET Chunks /\ run[r].next \in Int
BY CandidatesType, Constants DEF Undone, TypeOK, Work, JobTypeOver, RunStateOver

LEMMA BehindStays ==
    ASSUME TypeOK, Shrinks, NEW ids \in SUBSET Chunks, NEW k \in Int, Behind(ids, k)
    PROVE  Lag(ids, k, Undone', Candidates(review'), departures')
BY Subsets, LagStays DEF Shrinks, Departs, Behind

LEMMA NowBehind ==
    ASSUME TypeOK, TypeOK', Shrinks, NEW ids \in SUBSET Chunks, NEW k \in Int, Behind(ids, k)
    PROVE  Lag(Candidates(review'), k, Undone', Candidates(review'), departures')
<1>1. Lag(ids, k, Undone', Candidates(review'), departures')
  BY BehindStays
<1>2. departures' \in Nat /\ Undone' \in SUBSET Candidates(review')
  BY DEF TypeOK, Shrinks
<1> QED
  BY <1>1, <1>2, Subsets, LagNow

LEMMA UndoneStays ==
    ASSUME TypeOK, Shrinks, Cardinality(Undone) <= departures
    PROVE  Cardinality(Undone') <= departures'
<1> DEFINE G == Candidates(review) \ Candidates(review')
<1>1. G \in SUBSET Chunks /\ Undone' \in SUBSET Undone /\ Undone' \in SUBSET Chunks
  BY Subsets DEF Shrinks
<1>2. departures' = departures + Cardinality(G)
  BY DEF Shrinks, Departs
<1> HIDE DEF G
<1>3. Cardinality(G) \in Nat /\ Cardinality(Undone') <= Cardinality(Undone)
      /\ Cardinality(Undone') \in Nat /\ Cardinality(Undone) \in Nat
  BY <1>1, Subsets, Sizes
<1> QED
  BY <1>2, <1>3, Subsets

\* A run that does not move, or that ends.
LEMMA RunStays ==
    ASSUME TypeOK, TypeOK', Shrinks, NEW q \in Runs, RunSkips(q), run'[q] = run[q],
           work'[q] = work[q] \/ (work'[q] = NoWork /\ run'[q].pc = "idle")
    PROVE  RunSkips(q)'
<1>0. work[q].ids \in SUBSET Chunks /\ run[q].next - 1 \in Int /\ Undone' \subseteq Undone
      /\ Candidates(review) \in SUBSET Chunks
  BY Subsets DEF Shrinks
<1>1. CASE work'[q] = work[q]
  <2>1. run[q].pc \in {"start", "loop"} /\ ~work[q].listed
          => Lag(Candidates(review'), run[q].next - 1, Undone', Candidates(review'), departures')
    BY <1>0, NowBehind DEF RunSkips
  <2>2. run[q].pc \in AtReview \cup {"loop"} /\ work[q].listed
          => Lag(work[q].ids, run[q].next - 1, Undone', Candidates(review'), departures')
    BY <1>0, BehindStays DEF RunSkips
  <2>3. run[q].pc \in {"complete", "completing"} => Cardinality(Undone') <= departures'
    BY UndoneStays DEF RunSkips
  <2> QED
    BY <1>0, <1>1, <2>1, <2>2, <2>3 DEF RunSkips, Behind
<1>2. CASE work'[q] = NoWork /\ run'[q].pc = "idle"
  BY <1>2 DEF RunSkips, NoWork, AtReview, InHand
<1> QED
  BY <1>1, <1>2

\* Outside the loop.
LEMMA JobRunSkips ==
    ASSUME IInv, SkipInv, TypeOK', JobNext, EndedForget,
           UNCHANGED <<review, done, corrected, firm, departures>>, NEW q \in Runs
    PROVE  RunSkips(q)'
<1>0. TypeOK /\ RunSkips(q) /\ Moved(q) /\ job \in Row
  BY JobRuns DEF IInv, SkipInv, TypeOK, JobTypeOver
<1>s. Shrinks
  BY <1>0, QuietShrinks
<1>w. work'[q] = work[q] \/ (work'[q] = NoWork /\ run'[q].pc = "idle")
  BY <1>0, ForgetWork
<1>i. CASE run'[q].pc \in {"idle", "fail", "failing"}
  <2>1. run'[q].pc = "idle" => ~work'[q].listed
    BY DEF EndedForget, NoWork
  <2> QED
    BY <1>i, <2>1 DEF RunSkips, AtReview, InHand
<1>1. CASE run'[q] = run[q]
  BY <1>0, <1>1, <1>s, <1>w, RunStays
<1>2. CASE run[q].pc = "idle" /\ run'[q].pc = "wait"
  BY <1>0, <1>2, <1>w DEF RunSkips, AtReview, InHand
<1>3. CASE run[q].pc = "wait" /\ run'[q].pc \in {"start", "loop"} /\ run'[q].next = ResumeAt(job)
  <2>1. work'[q] = work[q] /\ ~work[q].listed
    BY <1>0, <1>3, <1>w DEF RunSkips
  <2>2. run'[q].next - 1 = job.progress.ckpt
    BY <1>0, <1>3, Constants DEF ResumeAt, Row, Progress
  <2>3. Lag(Candidates(review'), run'[q].next - 1, Undone', Candidates(review'), departures')
    BY <2>2 DEF SkipInv, Behind, Undone
  <2> QED
    BY <1>3, <2>1, <2>3 DEF RunSkips, Behind, AtReview, InHand
<1>4. CASE run[q].pc = "start" /\ run'[q].pc = "loop" /\ run'[q].next = run[q].next
  <2>1. work'[q] = work[q] /\ ~work[q].listed
    BY <1>0, <1>4, <1>w DEF RunSkips
  <2>3. Lag(Candidates(review'), run'[q].next - 1, Undone', Candidates(review'), departures')
    BY <1>0, <1>4, <2>1 DEF RunSkips, Behind, Undone
  <2> QED
    BY <1>4, <2>1, <2>3 DEF RunSkips, Behind, AtReview, InHand
<1>5. CASE run[q].pc = "complete" /\ run'[q].pc = "completing"
  <2>1. Cardinality(Undone') <= departures'
    BY <1>0, <1>5, <1>s, UndoneStays DEF RunSkips
  <2> QED
    BY <1>5, <2>1 DEF RunSkips, AtReview, InHand
<1> QED
  BY <1>0, <1>i, <1>1, <1>2, <1>3, <1>4, <1>5 DEF Moved

\* In the loop: the run that moves.
LEMMA LoopRunSkips ==
    ASSUME IInv, SkipInv, TypeOK', NEW r \in Runs, ReviewStep(r)
    PROVE  RunSkips(r)'
<1>0. TypeOK /\ WorkInv /\ RunSkips(r) /\ Next
  BY DEF IInv, SkipInv, Next
<1>s. Shrinks
  BY <1>0, StepShrinks
<1>t. /\ run \in [Runs -> RunStateOver(LoopPcs)] /\ work \in [Runs -> Work]
      /\ run[r] \in RunStateOver(LoopPcs) /\ work[r] \in Work
      /\ work[r].ids \in SUBSET Chunks /\ run[r].next \in Int
      /\ Candidates(review) \in SUBSET Chunks
  BY <1>0, Subsets DEF TypeOK, JobTypeOver
<1>1. CASE NoEngine(r) \/ LlmFails(r)
  <2>1. run'[r].pc = "fail"
    BY <1>t, <1>1 DEF NoEngine, LlmFails, Goto, RunStateOver
  <2> QED
    BY <2>1 DEF RunSkips, AtReview, InHand
<1>2. CASE ListEnds(r)
  <2>1. run'[r].pc = "complete" /\ UNCHANGED <<review, done, corrected, departures>>
    BY <1>t, <1>2 DEF ListEnds, Goto, RunStateOver, dataVars
  <2>2. Lag(work[r].ids, run[r].next - 1, Undone, Candidates(review), departures)
    BY <1>0, <1>2 DEF ListEnds, RunSkips, Behind
  <2>3. Cardinality(work[r].ids) \in Nat
    BY <1>t, Sizes
  <2>4. run[r].next - 1 >= Cardinality(work[r].ids) /\ run[r].next - 1 \in Int
    BY <1>t, <1>2, <2>3 DEF ListEnds
  <2>5. Cardinality(Undone) <= departures
    BY <1>0, <1>t, <2>2, <2>4, Subsets, LagEnds
  <2> QED
    BY <2>1, <2>5 DEF RunSkips, Undone, AtReview, InHand
<1>3. CASE ListCandidates(r)
  <2>1. /\ work'[r].listed /\ work'[r].ids = Candidates(review) /\ run'[r] = run[r]
        /\ run[r].pc = "loop" /\ UNCHANGED <<review, done, corrected, departures>>
    BY <1>t, <1>3 DEF ListCandidates, Work, jobVars
  <2>2. Behind(Candidates(review), run[r].next - 1)
    BY <1>0, <1>3 DEF RunSkips, ListCandidates
  <2> QED
    BY <2>1, <2>2 DEF RunSkips, Behind, Undone, AtReview, InHand
<1>4. CASE NextReview(r)
  <2>1. CASE Return(r) /\ EndedForget
    <3>1. run'[r].pc = "idle" /\ work'[r] = NoWork
      BY <1>t, <2>1 DEF Return, NoRun, RunAt, EndedForget
    <3> QED
      BY <3>1 DEF RunSkips, AtReview, InHand, NoWork
  <2>2. ASSUME NEW c \in work[r].ids, Position(work[r].ids, c) = run[r].next,
               Goto(r, "infer"), work' = [work EXCEPT ![r].id = c]
        PROVE  RunSkips(r)'
    <3>1. run'[r].pc = "infer" /\ run'[r].next = run[r].next
      BY <1>t, <2>2 DEF Goto, RunStateOver
    <3>2. work'[r].ids = work[r].ids /\ work'[r].id = c /\ work'[r].listed
      BY <1>t, <1>4, <2>2 DEF Work, NextReview
    <3>3. UNCHANGED <<review, done, corrected, departures>>
      BY <1>4 DEF NextReview
    <3>4. Behind(work[r].ids, run[r].next - 1)
      BY <1>0, <1>4 DEF RunSkips, NextReview
    <3> QED
      BY <2>2, <3>1, <3>2, <3>3, <3>4 DEF RunSkips, Behind, Undone, AtReview, InHand
  <2> QED
    BY <1>4, <2>1, <2>2 DEF NextReview
<1>5. CASE RewriteRead(r) \/ RewriteCommit(r) \/ ProgressRead(r)
  <2>1. /\ run[r].pc \in AtReview /\ run'[r].next = run[r].next
        /\ work'[r].ids = work[r].ids /\ work'[r].listed = work[r].listed
        /\ run'[r].pc \in AtReview
    BY <1>t, <1>5 DEF RewriteRead, RewriteCommit, ProgressRead, Goto, AtReview, RunStateOver,
       Work, dataVars
  <2>2. Lag(work[r].ids, run[r].next - 1, Undone', Candidates(review'), departures')
    BY <1>0, <1>s, <1>t, <2>1, BehindStays DEF RunSkips
  <2>3. CASE RewriteRead(r)
    <3>1. run'[r].pc = "rewrite" /\ run[r].pc = "infer" /\ work'[r].id = work[r].id
      BY <1>t, <2>3 DEF RewriteRead, Goto, RunStateOver, Work
    <3> QED
      BY <1>0, <2>1, <2>2, <3>1 DEF RunSkips, Behind, AtReview, InHand
  <2>4. CASE RewriteCommit(r)
    <3>1. run'[r].pc = "progress" /\ run[r].pc = "rewrite" /\ work[r].id \in work[r].ids
      BY <1>0, <1>t, <2>4 DEF RewriteCommit, Goto, RunStateOver, WorkInv, InHand
    <3>2. work[r].id \notin Undone' /\ Undone' \subseteq work[r].ids
      BY <2>2, <2>4 DEF RewriteCommit, Undone, Lag
    <3>3. Position(work[r].ids, work[r].id) = run[r].next
      BY <1>0, <3>1 DEF RunSkips, InHand
    <3>4. \A c \in Undone' : Position(work[r].ids, c) # run[r].next
      BY <1>t, <3>1, <3>2, <3>3, Positions
    <3> QED
      BY <1>0, <2>1, <2>2, <3>1, <3>4 DEF RunSkips, Behind, AtReview, InHand
  <2>5. CASE ProgressRead(r)
    <3>1. run'[r].pc = "commit" /\ run[r].pc = "progress"
      BY <1>t, <2>5 DEF ProgressRead, RunStateOver
    <3>2. \A c \in Undone' : Position(work[r].ids, c) # run[r].next
      BY <1>0, <1>s, <3>1 DEF RunSkips, Shrinks
    <3> QED
      BY <1>0, <2>1, <2>2, <3>1, <3>2 DEF RunSkips, Behind, AtReview, InHand
  <2> QED
    BY <1>5, <2>3, <2>4, <2>5
<1>6. CASE ProgressWrite(r)
  <2>1. /\ run'[r].pc = "loop" /\ run'[r].next = run[r].next + 1 /\ run[r].pc = "commit"
        /\ work' = work /\ UNCHANGED <<review, done, corrected, departures>>
    BY <1>t, <1>6 DEF ProgressWrite, RunAt, dataVars
  <2>2. work[r].listed /\ Behind(work[r].ids, run[r].next)
    <3>1. /\ work[r].listed /\ Behind(work[r].ids, run[r].next - 1)
          /\ \A c \in Undone : Position(work[r].ids, c) # run[r].next
      BY <1>0, <2>1 DEF RunSkips, AtReview
    <3>2. run[r].next - 1 \in Int /\ (run[r].next - 1) + 1 = run[r].next
      BY <1>t
    <3> QED
      BY <1>0, <1>t, <3>1, <3>2, Subsets, LagNext DEF Behind
  <2>3. (run[r].next + 1) - 1 = run[r].next
    BY <1>t
  <2> QED
    BY <2>1, <2>2, <2>3 DEF RunSkips, Behind, Undone, AtReview, InHand
<1> QED
  BY <1>1, <1>2, <1>3, <1>4, <1>5, <1>6 DEF ReviewStep

LEMMA InitSkips == Init => SkipInv
<1> SUFFICES ASSUME Init PROVE SkipInv
  OBVIOUS
<1>1. Candidates(review) = Chunks /\ Undone = Chunks /\ departures = 0
  BY DEF Init, Candidates, Undone, OldReview
<1>2. job.progress.ckpt = 0 /\ job.status = "queued"
  BY DEF Init, JobInit, NewRow, NoProgress
<1>3. \A c \in Chunks : Position(Chunks, c) # 0
  BY PositionType, Constants DEF Chunks
<1>4. {c \in Chunks : Position(Chunks, c) <= 0} = {}
  BY <1>3, Positions
<1>5. Behind(Candidates(review), job.progress.ckpt)
  BY <1>1, <1>2, <1>4, FS_EmptySet DEF Behind, Lag
<1>6. \A r \in Runs : RunSkips(r)
  BY DEF Init, JobInit, NoRun, RunAt, NoWork, RunSkips, AtReview, InHand
<1> QED
  BY <1>1, <1>2, <1>5, <1>6 DEF Init, SkipInv

\* The row's checkpoint and its completion.
LEMMA RowSkips ==
    ASSUME IInv, SkipInv, TypeOK', Next
    PROVE  /\ Behind(Candidates(review), job.progress.ckpt)'
           /\ job'.status = "completed" => Cardinality(Undone') <= departures'
<1>0. TypeOK /\ job \in Row /\ job.progress.ckpt \in Int /\ Candidates(review) \in SUBSET Chunks
  BY Constants, Subsets DEF IInv, TypeOK, JobTypeOver, Row, Progress
<1>s. Shrinks
  BY StepShrinks
<1>1. Lag(Candidates(review'), job.progress.ckpt, Undone', Candidates(review'), departures')
  BY <1>0, <1>s, NowBehind DEF SkipInv
<1>2. job.status = "completed" => Cardinality(Undone') <= departures'
  BY <1>0, <1>s, UndoneStays DEF SkipInv
<1>3. CASE UNCHANGED job
  BY <1>1, <1>2, <1>3 DEF Behind
<1>4. CASE JobNext
  <2>1. job'.progress = job.progress
    BY <1>0, <1>4, JobKeepsProgress
  <2>2. ASSUME NEW r \in Runs, run[r].pc = "completing"
        PROVE  Cardinality(Undone') <= departures'
    BY <1>0, <1>s, <2>2, UndoneStays DEF SkipInv, RunSkips
  <2>3. job'.status = "completed" => Cardinality(Undone') <= departures'
    BY <1>0, <1>2, <1>4, <2>2, JobCompletes
  <2> QED
    BY <1>1, <2>1, <2>3 DEF Behind
<1>5. ASSUME NEW r \in Runs, ProgressWrite(r)
      PROVE  /\ Behind(Candidates(review), job.progress.ckpt)'
             /\ job'.status = "completed" => Cardinality(Undone') <= departures'
  <2>1. job'.status = job.status /\ job'.progress.ckpt \in {run[r].next, job.progress.ckpt}
    BY <1>0, <1>5 DEF ProgressWrite, ApplyProgress, Row
  <2>2. RunSkips(r)' /\ run'[r].pc = "loop" /\ work'[r].listed
        /\ run'[r].next - 1 = run[r].next /\ run[r].next \in Int
        /\ work' = work
    <3>1. RunSkips(r) /\ run[r].pc = "commit"
      BY <1>5 DEF SkipInv, ProgressWrite
    <3>2. RunSkips(r)'
      BY <1>5, LoopRunSkips DEF ReviewStep
    <3>3. run'[r].pc = "loop" /\ run'[r].next = run[r].next + 1 /\ work' = work
      BY <1>0, <1>5 DEF ProgressWrite, RunAt, dataVars, TypeOK, JobTypeOver
    <3> QED
      BY <1>0, <3>1, <3>2, <3>3, Subsets DEF RunSkips, AtReview
  <2>3. Lag(work[r].ids, run[r].next, Undone', Candidates(review'), departures')
    BY <2>2 DEF RunSkips, Behind
  <2>4. departures' \in Nat /\ Undone' \in SUBSET Candidates(review')
        /\ Candidates(review') \in SUBSET Chunks /\ work[r].ids \in SUBSET Chunks
    BY <1>0, <1>s, Subsets DEF TypeOK, Shrinks
  <2>5. Lag(Candidates(review'), run[r].next, Undone', Candidates(review'), departures')
    BY <2>2, <2>3, <2>4, LagNow
  <2> QED
    BY <1>1, <1>2, <2>1, <2>5 DEF Behind
<1> QED
  BY <1>3, <1>4, <1>5 DEF Next, ReviewStep, NoEngine, ListCandidates, NextReview, ListEnds,
     LlmFails, RewriteRead, RewriteCommit, ProgressRead, Correct, jobVars

LEMMA NextSkips == IInv /\ SkipInv /\ [Next]_vars => SkipInv'
<1> SUFFICES ASSUME IInv, SkipInv, [Next]_vars PROVE SkipInv'
  OBVIOUS
<1>0. TypeOK /\ TypeOK'
  BY NextInv DEF IInv
<1>1. CASE UNCHANGED vars
  BY <1>1 DEF SkipInv, RunSkips, Behind, Undone, AtReview, InHand, vars, dataVars, jobVars
<1>2. CASE Next
  <2>s. Shrinks
    BY <1>2, StepShrinks
  <2>r. \A q \in Runs : RunSkips(q)'
    <3> SUFFICES ASSUME NEW q \in Runs PROVE RunSkips(q)'
      OBVIOUS
    <3>1. CASE JobNext /\ EndedForget /\ UNCHANGED <<review, done, corrected, firm, departures>>
      BY <1>0, <3>1, JobRunSkips
    <3>2. ASSUME NEW r \in Runs, ReviewStep(r) PROVE RunSkips(q)'
      <4>1. CASE q = r
        BY <1>0, <3>2, <4>1, LoopRunSkips
      <4>2. CASE q # r
        BY <1>0, <2>s, <3>2, <4>2, OtherRuns, RunStays DEF SkipInv
      <4> QED
        BY <4>1, <4>2
    <3>3. ASSUME NEW c \in Correctable, Correct(c) PROVE RunSkips(q)'
      BY <1>0, <2>s, <3>3, RunStays DEF SkipInv, Correct, jobVars
    <3> QED
      BY <1>2, <3>1, <3>2, <3>3 DEF Next
  <2> QED
    BY <1>0, <1>2, <2>s, <2>r, RowSkips DEF SkipInv, Shrinks
<1> QED
  BY <1>1, <1>2

LEMMA SkipsInductive == Spec => [](IInv /\ SkipInv)
BY InitInv, NextInv, InitSkips, NextSkips, PTL DEF Spec

\* However attempts fail, cancel and overlap and whoever corrects what
\* meanwhile, the checkpoint has passed no more unprocessed reviews than have
\* left the candidate list (candidate_ids[resume_from_index:]).
THEOREM SkipsBounded == Spec => []SkipsBoundedByDepartures
<1>1. ASSUME IInv, SkipInv PROVE SkipsBoundedByDepartures
  <2> DEFINE left == {c \in Candidates(review) \ done :
                         Position(Candidates(review), c) <= job.progress.ckpt}
             passed == {c \in Undone : Position(Candidates(review), c) <= job.progress.ckpt}
  <2>1. Candidates(review) \ done \subseteq Undone
    BY <1>1 DEF IInv, TypeOK, SkipInv, Candidates, Undone
  <2>2. left \in SUBSET passed /\ passed \in SUBSET Chunks
    BY <2>1 DEF Undone
  <2>3. Cardinality(left) <= Cardinality(passed) /\ Cardinality(left) \in Nat
        /\ Cardinality(passed) \in Nat
    BY <2>2, Sizes
  <2>4. Cardinality(Candidates(review) \ Candidates(review)) = 0
    BY FS_EmptySet
  <2>5. Cardinality(passed) <= departures /\ departures \in Nat
    BY <1>1, <2>3, <2>4 DEF SkipInv, Behind, Lag, IInv, TypeOK
  <2> QED
    BY <2>3, <2>5 DEF SkipsBoundedByDepartures
<1> QED
  BY <1>1, SkipsInductive, PTL

\* A completed job has left out no more reviews than that.
THEOREM CompletedBounded == Spec => []CompletedBoundedByDepartures
<1>1. IInv /\ SkipInv => CompletedBoundedByDepartures
  BY DEF SkipInv, Undone, CompletedBoundedByDepartures
<1> QED
  BY <1>1, SkipsInductive, PTL

\* The comment of _run_reanalysis is right as long as no review leaves the
\* list: then a completed job has rewritten every candidate that nobody
\* corrected.
THEOREM NothingLeftOut == Spec => [](departures = 0 => RetryLeavesNothingOut)
<1>1. ASSUME IInv, SkipInv, departures = 0 PROVE RetryLeavesNothingOut
  <2>1. Undone \in SUBSET Chunks
    BY DEF Undone
  <2>2. job.status = "completed" => Cardinality(Undone) = 0
    BY <1>1, <2>1, Sizes DEF SkipInv
  <2>3. job.status = "completed" => Undone = {}
    BY <2>1, <2>2, Sizes, FS_EmptySet
  <2> QED
    BY <2>3 DEF Undone, RetryLeavesNothingOut
<1> QED
  BY <1>1, SkipsInductive, PTL
=============================================================================
