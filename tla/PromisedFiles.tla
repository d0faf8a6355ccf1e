---------------------------- MODULE PromisedFiles ----------------------------
(***************************************************************************)
(* What a directory of files owes to the rows that name them, with no      *)
(* clock, reaper, task or crash in sight: a file is promised only when it  *)
(* is there, it stays as long as the promise does, and a promise that has  *)
(* ended is never made again.  Both directories of JobFiles implement it.  *)
(***************************************************************************)
CONSTANT Item   \* one per row

VARIABLES
    stored,     \* the items whose file is there
    promised,   \* the items whose file somebody may still ask for
    over        \* the items whose file nobody will ever be owed again

promiseVars == <<stored, promised, over>>

Init == stored = {} /\ promised = {} /\ over = {}

\* A file is written, for whatever it may be good.
Write(i) ==
    /\ stored' = stored \cup {i}
    /\ UNCHANGED <<promised, over>>

Promise(i) ==
    /\ i \in stored \ over
    /\ promised' = promised \cup {i}
    /\ UNCHANGED <<stored, over>>

\* Promises end, and files go that are not promised (any more).
LetGo(ended, gone) ==
    /\ over' = over \cup ended
    /\ promised' = promised \ ended
    /\ gone \cap promised' = {}
    /\ stored' = stored \ gone

Next ==
    \/ \E i \in Item : Write(i) \/ Promise(i)
    \/ \E ended, gone \in SUBSET Item : LetGo(ended, gone)

Spec == Init /\ [][Next]_promiseVars
=============================================================================
