----------------------------- MODULE Reanalysis -----------------------------
(***************************************************************************)
(* A re-analysis job (process_reanalysis_job): it has the row, requests,   *)
(* dispatch, locks and faults of an upload job (BatchJob), but walks over  *)
(* reviews that are in the database already, rewriting each with the LLM's *)
(* verdict, while people go on correcting the same reviews.  The list of   *)
(* candidates is queried anew by every attempt, and the checkpoint is an   *)
(* index into it.  A chunk is one review here (REANALYSIS_CHUNK_SIZE), and *)
(* NChunks is the number of candidates when the job was created.           *)
(***************************************************************************)
EXTENDS BatchJob

CONSTANTS
    Matched,        \* reviews whose text a stored correction matches
    Correctable     \* bound: the reviews people correct meanwhile

ASSUME ReviewAssumption == Matched \subseteq Chunks /\ Correctable \subseteq Chunks

VARIABLES
    review,     \* the committed reviews
    work,       \* what each run holds in memory
    done,       \* reviews the job has rewritten
    corrected,  \* reviews a person has corrected
    firm,       \* ... the last time while no run had them on its list
    departures  \* how often a review has left the candidate list

dataVars == <<review, work, done, corrected, firm, departures>>
vars == <<jobVars, dataVars>>

\* Who decided a review's values; whether overrides_applied has the trace of
\* a person's correction; and whether it has that of a matched one.
Review == [by : {"old", "llm", "match", "person"}, trace : BOOLEAN, stamp : BOOLEAN]
OldReview == [by |-> "old", trace |-> FALSE, stamp |-> FALSE]

\* candidate_ids, the review in hand, and its row as the write read it.
Work == [listed : BOOLEAN, ids : SUBSET Chunks, id : 0..NChunks, row : Review]
NoWork == [listed |-> FALSE, ids |-> {}, id |-> 0, row |-> OldReview]

\* Mutant: the candidate query without _not_human_corrected.
CandidatesAll(rev) == Chunks

\* candidate_stmt: reviews without a trace of a person's decision.
Candidates(rev) == {c \in Chunks : ~rev[c].trace /\ ~rev[c].stamp}

\* What a change of the reviews takes off the list.
Departs == departures' = departures + Cardinality(Candidates(review) \ Candidates(review'))

\* The list is ordered by id.
Position(ids, c) == Cardinality({d \in ids : d <= c})

Init ==
    /\ JobInit
    /\ review = [c \in Chunks |-> OldReview]
    /\ work = [r \in Runs |-> NoWork]
    /\ done = {} /\ corrected = {} /\ firm = {} /\ departures = 0

\* A run that has ended keeps nothing in memory.
EndedForget == work' = [r \in Runs |-> IF run'[r].pc = "idle" THEN NoWork ELSE work[r]]

-----------------------------------------------------------------------------
(* correct_review: the row is locked from its read to the commit.          *)

Correct(c) ==
    /\ review[c].by # "person"
    /\ review' = [review EXCEPT ![c].by = "person", ![c].trace = TRUE]
    /\ corrected' = corrected \cup {c}
    /\ firm' = IF \E r \in Runs : c \in work[r].ids THEN firm \ {c} ELSE firm \cup {c}
    /\ Departs
    /\ UNCHANGED <<jobVars, work, done>>

-----------------------------------------------------------------------------
(* _run_reanalysis.                                                        *)

\* No LLM key, or the unified path is switched off: there is no fallback.
NoEngine(r) ==
    /\ run[r].pc = "loop" /\ ~work[r].listed
    /\ Goto(r, "fail")
    /\ UNCHANGED <<job, arq, sched, up, req, faults, dataVars>>

ListCandidates(r) ==
    /\ run[r].pc = "loop" /\ ~work[r].listed
    /\ work' = [work EXCEPT ![r].listed = TRUE, ![r].ids = Candidates(review)]
    /\ UNCHANGED <<jobVars, review, done, corrected, firm, departures>>

\* The next review on the list, if the job is not cancelled.
NextReview(r) ==
    /\ run[r].pc = "loop" /\ work[r].listed
    /\ \E c \in work[r].ids :
         /\ Position(work[r].ids, c) = run[r].next
         /\ \/ job.status = "cancelled" /\ Return(r) /\ EndedForget
            \/ /\ job.status # "cancelled"
               /\ Goto(r, "infer")
               /\ work' = [work EXCEPT ![r].id = c]
               /\ UNCHANGED arq
    /\ UNCHANGED <<job, sched, up, req, faults, review, done, corrected, firm, departures>>

ListEnds(r) ==
    /\ run[r].pc = "loop" /\ work[r].listed
    /\ run[r].next > Cardinality(work[r].ids)
    /\ Goto(r, "complete")
    /\ UNCHANGED <<job, arq, sched, up, req, faults, dataVars>>

\* The LLM gave up on the chunk: the job fails here, its checkpoint stays.
LlmFails(r) ==
    /\ run[r].pc = "infer"
    /\ Goto(r, "fail")
    /\ UNCHANGED <<job, arq, sched, up, req, faults, dataVars>>

\* The verdict is in; the write transaction reads the row, without a lock.
RewriteRead(r) ==
    /\ run[r].pc = "infer"
    /\ Goto(r, "rewrite")
    /\ work' = [work EXCEPT ![r].row = review[work[r].id]]
    /\ UNCHANGED <<job, arq, sched, up, req, faults, review, done, corrected, firm, departures>>

\* The row the write stores: the verdict, and of the old traces only those
\* of a person's decision (_rewritten_overrides).
Rewritten(row, c) ==
    [by    |-> IF c \in Matched THEN "match" ELSE "llm",
     trace |-> row.trace,
     stamp |-> row.stamp \/ c \in Matched]

\* A verdict that repeats the row as read leaves no column to update.
RewriteCommit(r) ==
    LET c   == work[r].id
        new == Rewritten(work[r].row, c)
    IN  /\ run[r].pc = "rewrite"
        /\ \/ review' = [review EXCEPT ![c] = new]
           \/ new = work[r].row /\ UNCHANGED review
        /\ Departs
        /\ done' = done \cup {c}
        /\ Goto(r, "progress")
        /\ work' = [work EXCEPT ![r].id = 0, ![r].row = OldReview]
        /\ UNCHANGED <<job, arq, sched, up, req, faults, corrected, firm>>

ProgressRead(r) ==
    /\ run[r].pc = "progress"
    /\ run' = [run EXCEPT ![r].pc = "commit", ![r].seen = job.progress]
    /\ UNCHANGED <<job, arq, sched, up, req, faults, dataVars>>

\* The checkpoint is the index in the run's own list.
ProgressWrite(r) ==
    /\ run[r].pc = "commit"
    /\ job' = [job EXCEPT !.progress =
                  ApplyProgress(@, run[r].seen, run[r].next, TRUE)]
    /\ run' = [run EXCEPT ![r] = RunAt("loop", run[r].next + 1)]
    /\ UNCHANGED <<arq, sched, up, req, faults, dataVars>>

ReviewStep(r) ==
    \/ NoEngine(r) \/ ListCandidates(r) \/ NextReview(r) \/ ListEnds(r) \/ LlmFails(r)
    \/ RewriteRead(r) \/ RewriteCommit(r) \/ ProgressRead(r) \/ ProgressWrite(r)

Next ==
    \/ JobNext /\ EndedForget /\ UNCHANGED <<review, done, corrected, firm, departures>>
    \/ \E r \in Runs : ReviewStep(r)
    \/ \E c \in Correctable : Correct(c)

Spec == Init /\ [][Next]_vars
-----------------------------------------------------------------------------
(* Properties.                                                             *)

LoopPcs == {"infer", "rewrite", "progress", "commit"}

TypeOK ==
    /\ JobTypeOver(LoopPcs)
    /\ review \in [Chunks -> Review]
    /\ work \in [Runs -> Work]
    /\ {done, corrected, firm} \subseteq SUBSET Chunks
    /\ departures \in Nat

\* "Human corrections are left alone" (module docstring, _CORRECTION_LAYERS)
\* is true of a correction made while no run had the review on its list: no
\* later attempt, in either process, overwrites its values or its trace.
FirmCorrectionsStand ==
    \A c \in firm : review[c].by = "person" /\ review[c].trace

\* A retry applies the checkpoint, an index, to a list that has shrunk since
\* (candidate_ids[resume_from_index:]).  What it skips without anybody having
\* processed it is bounded by how often a review has left the list, so a job
\* during which none left it skips nothing.
SkipsBoundedByDepartures ==
    Cardinality({c \in Candidates(review) \ done :
                    Position(Candidates(review), c) <= job.progress.ckpt}) <= departures

\* A completed job has left out, of the reviews no person decided, no more
\* than that.
CompletedBoundedByDepartures ==
    job.status = "completed" => Cardinality(Chunks \ (done \cup corrected)) <= departures

\* "The order is fixed by id, so the index is reliable ... at most one row is
\* processed a second time" (_run_reanalysis): a completed job has rewritten
\* every candidate that no person decided meanwhile.
RetryLeavesNothingOut ==
    job.status = "completed" => Chunks \subseteq done \cup corrected
=============================================================================
