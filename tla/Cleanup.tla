------------------------------ MODULE Cleanup ------------------------------
(***************************************************************************)
(* The age of files and rows, and what the reaper of workers/cleanup.py    *)
(* does to one file.  Time is counted in ticks; an age stops growing once  *)
(* it is past the retention, which is all that anything compares it with.  *)
(***************************************************************************)
EXTENDS Naturals

CONSTANTS
    Retention,      \* retention_hours, in ticks
    Absent          \* no such file

ASSUME CleanupAssumption == Retention \in Nat /\ Absent \notin Nat

Ages == 0 .. Retention + 1

\* A file is its age, by mtime.
File == Ages \cup {Absent}

Past(age) == age > Retention

\* Mutant: an age without an end.
AgedFurther(age) == IF age = Absent THEN age ELSE age + 1

Aged(age) == IF age = Absent \/ Past(age) THEN age ELSE age + 1

\* Mutant: the cutoff itself counts as stale.
ReapedAtCutoff(file) == IF file # Absent /\ file >= Retention THEN Absent ELSE file

\* reap_stale_uploads, for a file that is not on the keep list.
Reaped(file) == IF file # Absent /\ Past(file) THEN Absent ELSE file
=============================================================================
