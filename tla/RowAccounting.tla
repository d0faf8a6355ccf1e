---------------------------- MODULE RowAccounting ----------------------------
(***************************************************************************)
(* What an upload job promises about its rows, with no worker, queue or    *)
(* request in sight: rows are accounted for (written as a review or        *)
(* counted as failed) one at a time and for good, the checkpoint a retry   *)
(* resumes after covers accounted rows only, and the job is completed only *)
(* when every row is accounted for.  BatchSerial implements it.            *)
(***************************************************************************)
EXTENDS Integers

CONSTANT N      \* rows of the file (chunks, in the modules that implement it)

VARIABLES
    accounted,  \* the rows accounted for
    checkpoint, \* the row a retry resumes after
    completed   \* whether the job says it is completed

accountingVars == <<accounted, checkpoint, completed>>

Rows == 1..N

Init ==
    /\ accounted = {}
    /\ checkpoint = 0
    /\ completed = FALSE

\* A checkpoint is good if a retry that starts after it leaves nothing out.
\* It may move back: rows are then analysed again, and none is lost.
GoodCheckpoint(p, done) == p \in 0..N /\ 1..p \subseteq done

\* A row is accounted for; its checkpoint may be stored with it.
Account(row) ==
    /\ accounted' = accounted \cup {row}
    /\ checkpoint' = checkpoint \/ GoodCheckpoint(checkpoint', accounted')
    /\ UNCHANGED completed

MoveCheckpoint(p) ==
    /\ GoodCheckpoint(p, accounted)
    /\ checkpoint' = p
    /\ UNCHANGED <<accounted, completed>>

Complete ==
    /\ accounted = Rows
    /\ completed' = TRUE
    /\ UNCHANGED <<accounted, checkpoint>>

\* A late cancel, failure or start overwrites completed.
Reopen ==
    /\ completed' = FALSE
    /\ UNCHANGED <<accounted, checkpoint>>

Next ==
    \/ \E row \in Rows : Account(row)
    \/ \E p \in 0..N : MoveCheckpoint(p)
    \/ Complete
    \/ Reopen

Spec == Init /\ [][Next]_accountingVars
=============================================================================
