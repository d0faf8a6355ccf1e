---------------------------- MODULE MCReanalysis ----------------------------
(***************************************************************************)
(* TLC instances of Reanalysis.  MCReanalysis.cfg: the job may run in both *)
(* processes at once, after a refused enqueue, while people                 *)
(* correct one of the reviews; MCReanalysisRetry.cfg: the promise about    *)
(* retries that does not hold.                                             *)
(***************************************************************************)
EXTENDS Reanalysis

FirstReview == {1}
SecondReview == {2}
=============================================================================
