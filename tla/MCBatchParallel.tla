--------------------------- MODULE MCBatchParallel ---------------------------
(***************************************************************************)
(* TLC instances of BatchParallel: two chunks at a time.                   *)
(* MCBatchParallel.cfg: what holds.  MCBatchResume.cfg and               *)
(* MCBatchPipelines.cfg: one documented promise each that does not.        *)
(***************************************************************************)
EXTENDS BatchParallel
=============================================================================
